---- MODULE Spec2Model ----
(***************************************************************************)
(* State-machine model of the MyCache library (LruCache, LfuCache,         *)
(* ArcCache with its ArcLruCache / ArcLfuCache parts).                     *)
(*                                                                         *)
(* Every engine is a record holding the fields of the C++ object.  A       *)
(* doubly linked list between two sentinels is the sequence of the nodes   *)
(* linked between them, read from the head sentinel to the tail sentinel.  *)
(* A key -> NodePtr map is modelled by its key set where the node of a key *)
(* is the one linked under that key, and by a key -> node-id function      *)
(* where the code can leave a node linked after its key was erased.        *)
(* Each public method is an operator from the engine record (and the       *)
(* arguments) to the new record and the returned values; an action applies *)
(* one method to the engine under test.                                    *)
(***************************************************************************)
EXTENDS Integers, Sequences, FiniteSets, TLC

VARIABLES
    lru,        \* the LruCache under test
    lruRef,     \* reference LRU run side by side: <<capacity, seq of [key, value]>>
    lruRet,     \* the last LruCache call and what it returned
    lruRefRet,  \* what the reference returned for the same call
    lfu,        \* the LfuCache under test
    lfuRet,     \* the last LfuCache call and what it returned
    lfuLastPut, \* key -> value of the latest put of the key (DefaultValue: never put)
    lfuSince,   \* the linked nodes, the one longest in its current frequency class first
    arc,        \* the ArcCache under test
    arcRet,     \* the last ArcCache call and what it returned
    arcLastPut, \* key -> value of the latest put of the key (DefaultValue: never put)
    lruEvicted, \* entries the LruCache has evicted so far (counted in SpecBudget)
    lfuEvicted, \* entries the LfuCache has evicted so far (counted in SpecBudget)
    lruk,       \* the KLruKCache under test
    lrukRet,    \* the last KLruKCache call and what it returned
    lrukTouched,\* key -> number of put / get(Key) calls on the key so far
    lrukLastPut,\* key -> value of the latest put of the key (DefaultValue: never put)
    lrukLost,   \* TRUE once the history has forgotten a key or main has evicted one
    hashLru,    \* the KHashLruCaches under test
    hashLruRet, \* the last KHashLruCaches call and what it returned
    hashLruSeen,\* shard -> the distinct keys the shard has been handed by put
    hashLfu,    \* the HashLfuCache under test
    hashLfuRet, \* the last HashLfuCache call and what it returned
    thCall,     \* thread -> the public operation it is in ("idle": none)
    thTodo,     \* thread -> the instructions of that operation still to run
    mutexOwner, \* engine -> the thread holding its mutex_ (NoThread: free)
    thEngine,   \* the engine the threads of SpecThreads share: "lru" or "lfu"
    thArgs,     \* thread -> key and value (for get: the caller's out) of its call
    thIt,       \* thread -> whether its find in the index found the key
    thRet,      \* thread -> what its operation has returned
    thLin,      \* thread -> what the reference LRU returned when it took the lock
    thSnap      \* thread -> the LfuCache as it was when it took the lock

lruVars == <<lru, lruRef, lruRet, lruRefRet>>
lfuVars == <<lfu, lfuRet, lfuLastPut, lfuSince>>
arcVars == <<arc, arcRet, arcLastPut>>
budgetVars == <<lruEvicted, lfuEvicted>>
lrukVars == <<lruk, lrukRet, lrukTouched, lrukLastPut, lrukLost>>
hashVars == <<hashLru, hashLruRet, hashLruSeen, hashLfu, hashLfuRet>>
thDataVars == <<thEngine, thArgs, thIt, thRet, thLin, thSnap>>
threadVars == <<thCall, thTodo, mutexOwner, thDataVars>>
vars == <<lruVars, lfuVars, arcVars, budgetVars, lrukVars, hashVars, threadVars>>

\* what a call to one engine leaves alone
notLruVars == <<lfuVars, arcVars, budgetVars, lrukVars, hashVars, threadVars>>
notLfuVars == <<lruVars, arcVars, budgetVars, lrukVars, hashVars, threadVars>>
notArcVars == <<lruVars, lfuVars, budgetVars, lrukVars, hashVars, threadVars>>
notLrukVars == <<lruVars, lfuVars, arcVars, budgetVars, hashVars, threadVars>>
notHashVars == <<lruVars, lfuVars, arcVars, budgetVars, lrukVars, threadVars>>

-----------------------------------------------------------------------------
(* Bounds of the model *)

\* threads calling at once
ThreadCount == 2

\* the owner of a free mutex
NoThread == 0

\* keys, capacities and maxAverageNum_ of the engine the threads of SpecThreads share
ThreadMaxKey == 1
ThreadMaxCapacity == 2
ThreadThreshold == 2

LruMaxKey == 2
LruMaxCapacity == 2

(* Program constants *)

\* Key() : the key held by the sentinel nodes
DefaultKey == 0
\* Value{} : what the caller's out variable holds before get(key, out)
DefaultValue == 0

\* INT8_MAX : initial minFreq_ and the start value of updateMinFreq
INT8_MAX == 127

LruKeys == 0..LruMaxKey
\* the values put: two distinct values tell a fresh value from a stale one
Values == {1, 2}

\* the range of int
INT_MAX == 2147483647
INT_MIN == -2147483647 - 1

\* int / int of C++ : the quotient truncated toward zero; a negative a over a
\* positive b is computed from -(a + 1), which exists for a = INT_MIN too
CDiv(a, b) ==
    IF a < 0 /\ b > 0
    THEN LET m == -(a + 1)
         IN  -(m \div b) - (IF m % b = b - 1 THEN 1 ELSE 0)
    ELSE IF (a >= 0) = (b > 0)
    THEN (IF a >= 0 THEN a ELSE -a) \div (IF b > 0 THEN b ELSE -b)
    ELSE -((IF a >= 0 THEN a ELSE -a) \div (IF b > 0 THEN b ELSE -b))

\* x + 1 and x - n in an int.  Past INT_MAX or INT_MIN the arithmetic is
\* undefined; the builds of this code (no -ftrapv) keep the low 32 bits of the
\* result, so the value comes round from the other end of the range
IntIncrement(x) == IF x = INT_MAX THEN INT_MIN ELSE x + 1

IntMinus(x, n) ==
    IF n >= 0 /\ x < INT_MIN + n THEN INT_MAX - ((n - 1) - (x - INT_MIN))
    ELSE IF n < 0 /\ x > INT_MAX + n THEN INT_MIN + ((-n - 1) - (INT_MAX - x))
    ELSE x - n

Min(a, b) == IF a < b THEN a ELSE b

-----------------------------------------------------------------------------
(* Sequence helpers *)

RECURSIVE SeqKeys(_)
SeqKeys(s) == IF s = <<>> THEN {} ELSE {Head(s).key} \cup SeqKeys(Tail(s))

KeyList(s) == [i \in 1..Len(s) |-> s[i].key]

NoDuplicates(s) == \A i, j \in 1..Len(s) : s[i].key = s[j].key => i = j

\* the node of `s` linked under `key`
NodeOf(s, key) == s[CHOOSE i \in 1..Len(s) : s[i].key = key]

-----------------------------------------------------------------------------
(* LruCache *)

LruNode(key, value) == [key |-> key, value |-> value, accessCount_ |-> 1]

\* nodeMap_ : keys of the index; list : nodes between dummyHead_ and dummyTail_
LruCache(capacity) == [capacity_ |-> capacity, nodeMap_ |-> {}, list |-> <<>>]

\* unlink `node` if it is linked
LruRemoveNode(list, node) == SelectSeq(list, LAMBDA n : n # node)

\* link `node` just before dummyTail_
LruInsertNode(list, node) == Append(list, node)

\* mutant: leaves the node where it is
LruLeaveInPlace(list, node) == list

LruMoveToMostRecent(list, node) == LruInsertNode(LruRemoveNode(list, node), node)

LruUpdateExistingNode(c, node, value) ==
    LET updated == [node EXCEPT !.value = value]
        relinked == [i \in 1..Len(c.list) |->
                        IF c.list[i] = node THEN updated ELSE c.list[i]]
    IN  [c EXCEPT !.list = LruMoveToMostRecent(relinked, updated)]

\* mutant: evicts the node next to the tail (MRU) instead of the LRU one
LruEvictMostRecent(c) ==
    IF c.list = <<>> THEN c
    ELSE LET mostRecent == c.list[Len(c.list)]
         IN  [c EXCEPT !.list = LruRemoveNode(c.list, mostRecent),
                       !.nodeMap_ = @ \ {mostRecent.key}]

\* dummyHead_->next_ is dummyTail_ (key Key(), not linked further) on an empty list
LruEvictLeastRecent(c) ==
    IF c.list = <<>>
    THEN [c EXCEPT !.nodeMap_ = @ \ {DefaultKey}]
    ELSE LET leastRecent == Head(c.list)
         IN  [c EXCEPT !.list = LruRemoveNode(c.list, leastRecent),
                       !.nodeMap_ = @ \ {leastRecent.key}]

\* mutant of addNewNode: the entry is evicted only once the cache is over capacity
LruAddNewNodeLate(c, key, value) ==
    LET c1 == IF Cardinality(c.nodeMap_) > c.capacity_
              THEN LruEvictLeastRecent(c) ELSE c
        newNode == LruNode(key, value)
    IN  [c1 EXCEPT !.list = LruInsertNode(c1.list, newNode),
                   !.nodeMap_ = @ \cup {key}]

LruAddNewNode(c, key, value) ==
    LET c1 == IF Cardinality(c.nodeMap_) >= c.capacity_
              THEN LruEvictLeastRecent(c) ELSE c
        newNode == LruNode(key, value)
    IN  [c1 EXCEPT !.list = LruInsertNode(c1.list, newNode),
                   !.nodeMap_ = @ \cup {key}]

LruPutOp(c, key, value) ==
    IF c.capacity_ <= 0 THEN c
    ELSE IF key \in c.nodeMap_
         THEN LruUpdateExistingNode(c, NodeOf(c.list, key), value)
         ELSE LruAddNewNode(c, key, value)

\* bool get(Key, Value&): `out` is the caller's variable before the call
LruGetOp(c, key, out) ==
    IF key \in c.nodeMap_
    THEN LET node == NodeOf(c.list, key)
         IN  [c |-> [c EXCEPT !.list = LruMoveToMostRecent(c.list, node)],
              hit |-> TRUE, value |-> node.value]
    ELSE [c |-> c, hit |-> FALSE, value |-> out]

\* mutant of remove: the key is erased from the index, its node stays linked
LruRemoveOpIndexOnly(c, key) ==
    IF key \in c.nodeMap_
    THEN [c EXCEPT !.nodeMap_ = @ \ {key}]
    ELSE c

LruRemoveOp(c, key) ==
    IF key \in c.nodeMap_
    THEN [c EXCEPT !.list = LruRemoveNode(c.list, NodeOf(c.list, key)),
                   !.nodeMap_ = @ \ {key}]
    ELSE c

-----------------------------------------------------------------------------
(* LfuCache *)

(* Bounds of the LfuCache runs *)
LfuMaxKey == 2
LfuMaxCapacity == 2
\* maxAverageNum_ / 2 is 0 for the first and 1 for the second
LfuThresholds == {1, 2}
\* a threshold of several hundred, run at capacity 1 with keys 0..LfuLargeMaxKey
LfuLargeThreshold == 252
LfuLargeMaxKey == 1
\* nodes of one key that may stay linked after the key was erased from nodeMap_
LfuMaxUnindexed == 1
\* calls are made while curTotalNum_ is below maxAverageNum_ * capacity_ + LfuMaxOverrun
LfuMaxOverrun == 2

LfuKeys == 0..LfuMaxKey

ArcMaxKey == 2
ArcMaxCapacity == 2
\* the largest access count a node reaches
ArcMaxCount == 3
\* the ghost nodes a list keeps outside its map while calls are made
ArcMaxUnindexed == 0
ArcWideMaxKey == 3
ArcWideMaxCount == 2
ArcGhostMaxUnindexed == 1
ZeroMaxKey == 1
BudgetMaxKey == 3
LrukMaxKey == 1
LrukMaxCapacity == 1
LrukMaxHistory == 2
LrukMaxK == 2
LrukMaxTouches == 3
FormsMaxKey == 1
HashMaxKey == 3
HashMaxCapacity == 3
HashMaxSlices == 2
HashLfuMaxCapacity == 2

\* an int that is the key of no entry
NoKey == -1

\* FreqList::Node(key, value)
LfuNode(key, value) == [freq |-> 1, key |-> key, value |-> value]

\* A node is named <<key, n>>: n tells the nodes made for one key apart.
\* nodeMap_ : key -> name of its node; nodes : the nodes that are linked or
\* indexed; freqToFreqList_ : freq -> names linked between head_ and tail_
LfuCache(capacity, maxAverageNum) ==
    [capacity_ |-> capacity, minFreq_ |-> INT8_MAX, maxAverageNum_ |-> maxAverageNum,
     curAverageNum_ |-> 0, curTotalNum_ |-> 0,
     nodeMap_ |-> <<>>, nodes |-> <<>>, freqToFreqList_ |-> <<>>]

LfuSize(c) == Cardinality(DOMAIN c.nodeMap_)

LfuLinked(c) == UNION {{c.freqToFreqList_[f][i] : i \in 1..Len(c.freqToFreqList_[f])} :
                          f \in DOMAIN c.freqToFreqList_}

Restrict(f, S) == [x \in S |-> f[x]]

\* nodes that are neither indexed nor linked are released
LfuRelease(c) ==
    [c EXCEPT !.nodes = Restrict(@, {id \in DOMAIN @ :
                 id \in LfuLinked(c) \/ \E k \in DOMAIN c.nodeMap_ : c.nodeMap_[k] = id})]

\* FreqList::removeNode unlinks the node from its neighbours, whichever list they are in
LfuRemoveFromFreqList(c, id) ==
    [c EXCEPT !.freqToFreqList_ =
        [f \in DOMAIN @ |-> SelectSeq(@[f], LAMBDA n : n # id)]]

LfuAddToFreqList(c, id) ==
    LET f == c.nodes[id].freq
        lists == IF f \in DOMAIN c.freqToFreqList_ THEN c.freqToFreqList_
                 ELSE (f :> <<>>) @@ c.freqToFreqList_
    IN  [c EXCEPT !.freqToFreqList_ = [lists EXCEPT ![f] = Append(@, id)]]

LfuUpdateMinFreq(c) ==
    LET nonEmpty == {f \in DOMAIN c.freqToFreqList_ : c.freqToFreqList_[f] # <<>>}
        m == IF nonEmpty = {} THEN INT8_MAX
             ELSE Min(INT8_MAX, CHOOSE f \in nonEmpty : \A g \in nonEmpty : f <= g)
    IN  [c EXCEPT !.minFreq_ = IF m = INT8_MAX THEN 1 ELSE m]

\* the orders in which a loop over an unordered map holding the keys S may visit them
Orders(S) == {o \in [1..Cardinality(S) -> S] :
                 \A i, j \in 1..Cardinality(S) : o[i] = o[j] => i = j}

\* the loop body of handleOverMaxAverageNum, over the keys in the order `order`
RECURSIVE LfuAgeNodes(_, _)
LfuAgeNodes(c, order) ==
    IF order = <<>> THEN c
    ELSE LET id == c.nodeMap_[Head(order)]
             c1 == LfuRemoveFromFreqList(c, id)
             aged == c1.nodes[id].freq - CDiv(c1.maxAverageNum_, 2)
             c2 == [c1 EXCEPT !.nodes[id].freq = IF aged < 1 THEN 1 ELSE aged]
         IN  LfuAgeNodes(LfuAddToFreqList(c2, id), Tail(order))

\* the engines the pass may leave: one for each iteration order of nodeMap_
LfuHandleOverMaxAverageNum(c) ==
    IF DOMAIN c.nodeMap_ = {} THEN {c}
    ELSE {LfuUpdateMinFreq(LfuAgeNodes(c, order)) : order \in Orders(DOMAIN c.nodeMap_)}

LfuAverage(c) == IF DOMAIN c.nodeMap_ = {} THEN 0 ELSE CDiv(c.curTotalNum_, LfuSize(c))

LfuAddFreqNum(c) ==
    LET c1 == [c EXCEPT !.curTotalNum_ = IntIncrement(@)]
        c2 == [c1 EXCEPT !.curAverageNum_ = LfuAverage(c1)]
    IN  IF c2.curAverageNum_ > c2.maxAverageNum_
        THEN LfuHandleOverMaxAverageNum(c2) ELSE {c2}

LfuDecreaseFreqNum(c, num) ==
    LET c1 == [c EXCEPT !.curTotalNum_ = IntMinus(@, num)]
    IN  [c1 EXCEPT !.curAverageNum_ = LfuAverage(c1)]

\* getFirstNode() of an empty list is its tail_ : made by Node(), freq 1, next
\* null, key never initialised: the int read from it is the key of some entry
\* or of none, so erase(node->key) has one outcome for each
LfuKickOut(c) ==
    LET list == c.freqToFreqList_[c.minFreq_]
    IN  IF list = <<>>
        THEN {LfuDecreaseFreqNum([c EXCEPT !.nodeMap_ = Restrict(@, DOMAIN @ \ {tailKey})], 1) :
                 tailKey \in DOMAIN c.nodeMap_ \cup {NoKey}}
        ELSE LET id == Head(list)
                 node == c.nodes[id]
                 c1 == LfuRemoveFromFreqList(c, id)
                 c2 == [c1 EXCEPT !.nodeMap_ = Restrict(@, DOMAIN @ \ {node.key})]
             IN  {LfuRelease(LfuDecreaseFreqNum(c2, node.freq))}

LfuFreeNames(c, key) == {<<key, n>> : n \in 0..LfuMaxUnindexed} \ DOMAIN c.nodes

LfuFreshName(c, key) ==
    CHOOSE id \in LfuFreeNames(c, key) : \A other \in LfuFreeNames(c, key) : id[2] <= other[2]

\* make_shared<Node>(key, value), nodeMap_[key] = node, and the rest of putInternal
LfuInsertNew(c, key, value) ==
    LET id == LfuFreshName(c, key)
        c1 == [c EXCEPT !.nodes = (id :> LfuNode(key, value)) @@ @,
                        !.nodeMap_ = (key :> id) @@ @]
    IN  {[d EXCEPT !.minFreq_ = Min(@, 1)] : d \in LfuAddFreqNum(LfuAddToFreqList(c1, id))}

LfuPutInternal(c, key, value) ==
    UNION {LfuInsertNew(c1, key, value) :
              c1 \in IF LfuSize(c) = c.capacity_ THEN LfuKickOut(c) ELSE {c}}

\* the outcomes: the engine and the value copied out
LfuGetInternal(c, id) ==
    LET value == c.nodes[id].value
        c1 == LfuRemoveFromFreqList(c, id)
        c2 == [c1 EXCEPT !.nodes[id].freq = @ + 1]
        c3 == LfuAddToFreqList(c2, id)
        freq == c3.nodes[id].freq
        c4 == IF freq - 1 = c3.minFreq_ /\ c3.freqToFreqList_[freq - 1] = <<>>
              THEN [c3 EXCEPT !.minFreq_ = @ + 1] ELSE c3
    IN  {[c |-> d, value |-> value] : d \in LfuAddFreqNum(c4)}

\* mutant: a put of a live key counts the hit and keeps the old value
LfuPutKeepsValue(c, key, value) ==
    IF c.capacity_ = 0 THEN {c}
    ELSE IF key \in DOMAIN c.nodeMap_
         THEN {r.c : r \in LfuGetInternal(c, c.nodeMap_[key])}
         ELSE LfuPutInternal(c, key, value)

\* the engines put(key, value) may leave
LfuPutOp(c, key, value) ==
    IF c.capacity_ = 0 THEN {c}
    ELSE IF key \in DOMAIN c.nodeMap_
         THEN LET id == c.nodeMap_[key]
              IN  {r.c : r \in LfuGetInternal([c EXCEPT !.nodes[id].value = value], id)}
         ELSE LfuPutInternal(c, key, value)

\* mutant of get: the value is copied out, the hit is not counted
LfuGetOpUncounted(c, key, out) ==
    IF key \in DOMAIN c.nodeMap_
    THEN {[c |-> c, hit |-> TRUE, value |-> c.nodes[c.nodeMap_[key]].value]}
    ELSE {[c |-> c, hit |-> FALSE, value |-> out]}

\* the outcomes of bool get(Key, Value&): `out` is the caller's variable before the call
LfuGetOp(c, key, out) ==
    IF key \in DOMAIN c.nodeMap_
    THEN {[c |-> r.c, hit |-> TRUE, value |-> r.value] :
             r \in LfuGetInternal(c, c.nodeMap_[key])}
    ELSE {[c |-> c, hit |-> FALSE, value |-> out]}

-----------------------------------------------------------------------------
(* Reference LRU: an ordered list of at most C keys, LRU end first *)

RefDrop(s, key) == SelectSeq(s, LAMBDA e : e.key # key)

RefPut(r, key, value) ==
    LET C == r[1]
        s == r[2]
        e == [key |-> key, value |-> value]
    IN  IF C = 0 THEN r
        ELSE IF key \in SeqKeys(s) THEN <<C, Append(RefDrop(s, key), e)>>
        ELSE IF Len(s) >= C THEN <<C, Append(Tail(s), e)>>
        ELSE <<C, Append(s, e)>>

RefGet(r, key) ==
    LET s == r[2]
    IN  IF key \in SeqKeys(s)
        THEN [r |-> <<r[1], Append(RefDrop(s, key), NodeOf(s, key))>>,
              hit |-> TRUE, value |-> NodeOf(s, key).value]
        ELSE [r |-> r, hit |-> FALSE, value |-> DefaultValue]

RefRemove(r, key) == <<r[1], RefDrop(r[2], key)>>

-----------------------------------------------------------------------------
(* ARC: the node type, and ArcLruCache (the recency part, T1 with ghost B1) *)

\* ArcNode(key, value) : a node starts with an access count of 1
ArcNode(key, value) == [key |-> key, value |-> value, accessCount_ |-> 1]

\* the sequence without its element at position i
RemoveAt(s, i) == [j \in 1..(Len(s) - 1) |-> IF j < i THEN s[j] ELSE s[j + 1]]

\* mainList : the nodes from mainHead_ to mainTail_ (most recent first).
\* ghostList : the keys of the nodes from ghostHead_ to ghostTail_ (latest
\* eviction first); the code reads nothing but getKey() of a ghost node.
\* mainCache_ / ghostCache_ : the key sets of the two maps.
ArcLruCache(capacity, transformThreshold) ==
    [capacity_ |-> capacity, ghostCapacity_ |-> capacity,
     transformThreshold_ |-> transformThreshold,
     mainCache_ |-> {}, mainList |-> <<>>, ghostCache_ |-> {}, ghostList |-> <<>>]

\* removeFromGhost(ghostCache_[key]) : the map holds the node added last
\* under the key, the one nearest to ghostHead_
ArcLruRemoveFromGhost(c, key) ==
    LET i == CHOOSE i \in 1..Len(c.ghostList) :
                 /\ c.ghostList[i] = key
                 /\ \A j \in 1..(i - 1) : c.ghostList[j] # key
    IN  [c EXCEPT !.ghostList = RemoveAt(@, i)]

ArcLruCheckGhost(c, key) ==
    IF key \in c.ghostCache_
    THEN [c |-> [ArcLruRemoveFromGhost(c, key) EXCEPT !.ghostCache_ = @ \ {key}],
          found |-> TRUE]
    ELSE [c |-> c, found |-> FALSE]

ArcLruRemoveOldestGhost(c) ==
    IF c.ghostList = <<>> THEN c
    ELSE LET oldestGhost == c.ghostList[Len(c.ghostList)]
         IN  [c EXCEPT !.ghostList = RemoveAt(@, Len(@)),
                       !.ghostCache_ = @ \ {oldestGhost}]

\* the node's count is reset to 1 on the way; nothing reads it afterwards
ArcLruAddToGhost(c, node) ==
    [c EXCEPT !.ghostList = <<node.key>> \o @,
              !.ghostCache_ = @ \cup {node.key}]

ArcLruRemoveFromMain(c, node) ==
    [c EXCEPT !.mainList = SelectSeq(@, LAMBDA n : n # node)]

ArcLruEvictLeastRecent(c) ==
    IF c.mainList = <<>> THEN c
    ELSE LET leastRecent == c.mainList[Len(c.mainList)]
             removed == ArcLruRemoveFromMain(c, leastRecent)
             roomed == IF Cardinality(removed.ghostCache_) >= removed.ghostCapacity_
                       THEN ArcLruRemoveOldestGhost(removed) ELSE removed
         IN  [ArcLruAddToGhost(roomed, leastRecent)
                 EXCEPT !.mainCache_ = @ \ {leastRecent.key}]

ArcLruAddToFront(c, node) == [c EXCEPT !.mainList = <<node>> \o @]

\* moveToFront of the node after its fields were set to `node`
ArcLruMoveToFront(c, key, node) ==
    ArcLruAddToFront(ArcLruRemoveFromMain(c, NodeOf(c.mainList, key)), node)

ArcLruUpdateExistingNode(c, key, value) ==
    ArcLruMoveToFront(c, key, [NodeOf(c.mainList, key) EXCEPT !.value = value])

ArcLruAddNewNode(c, key, value) ==
    LET roomed == IF Cardinality(c.mainCache_) >= c.capacity_
                  THEN ArcLruEvictLeastRecent(c) ELSE c
    IN  ArcLruAddToFront([roomed EXCEPT !.mainCache_ = @ \cup {key}],
                         ArcNode(key, value))

\* mutant of ArcLruCache::put: the capacity is not looked at
ArcLruPutUnchecked(c, key, value) ==
    IF key \in c.mainCache_
    THEN [c |-> ArcLruUpdateExistingNode(c, key, value), ok |-> TRUE]
    ELSE [c |-> ArcLruAddNewNode(c, key, value), ok |-> TRUE]

ArcLruPut(c, key, value) ==
    IF c.capacity_ = 0 THEN [c |-> c, ok |-> FALSE]
    ELSE IF key \in c.mainCache_
    THEN [c |-> ArcLruUpdateExistingNode(c, key, value), ok |-> TRUE]
    ELSE [c |-> ArcLruAddNewNode(c, key, value), ok |-> TRUE]

\* updateNodeAccess : the node moved to the front with its count incremented
ArcLruUpdateNodeAccess(c, key) ==
    ArcLruMoveToFront(c, key, [NodeOf(c.mainList, key) EXCEPT !.accessCount_ = @ + 1])

ArcLruGet(c, key, out, shouldTransform) ==
    IF key \in c.mainCache_
    THEN LET d == ArcLruUpdateNodeAccess(c, key)
             node == NodeOf(d.mainList, key)
         IN  [c |-> d, hit |-> TRUE, value |-> node.value,
              shouldTransform |-> node.accessCount_ >= d.transformThreshold_]
    ELSE [c |-> c, hit |-> FALSE, value |-> out, shouldTransform |-> shouldTransform]

ArcLruIncreaseCapacity(c) == [c EXCEPT !.capacity_ = @ + 1]

ArcLruDecreaseCapacity(c) ==
    IF c.capacity_ <= 0 THEN [c |-> c, ok |-> FALSE]
    ELSE LET roomed == IF Cardinality(c.mainCache_) = c.capacity_
                       THEN ArcLruEvictLeastRecent(c) ELSE c
         IN  [c |-> [roomed EXCEPT !.capacity_ = @ - 1], ok |-> TRUE]

-----------------------------------------------------------------------------
(* ArcLfuCache (the frequency part, T2 with ghost B2) *)

\* mainCache_ : key -> node.  freqMap_ : the std::map frequency -> list of
\* nodes, each node named by its key; a frequency is in the domain while the
\* map holds a list for it, empty or not.  ghostList : the keys of the nodes
\* from ghostHead_ to ghostTail_ (oldest eviction first).
ArcLfuCache(capacity, transformThreshold) ==
    [capacity_ |-> capacity, ghostCapacity_ |-> capacity,
     transformThreshold_ |-> transformThreshold, minFreq_ |-> 0,
     mainCache_ |-> <<>>, freqMap_ |-> <<>>, ghostCache_ |-> {}, ghostList |-> <<>>]

\* freqMap_[f] read through operator[] : a missing list reads as empty
ArcLfuBucket(fm, f) == IF f \in DOMAIN fm THEN fm[f] ELSE <<>>

ArcLfuSetBucket(fm, f, list) ==
    [g \in DOMAIN fm \cup {f} |-> IF g = f THEN list ELSE fm[g]]

\* removeFromGhost(ghostCache_[key]) : the map holds the node added last
\* under the key, the one nearest to ghostTail_
ArcLfuRemoveFromGhost(c, key) ==
    LET i == CHOOSE i \in 1..Len(c.ghostList) :
                 /\ c.ghostList[i] = key
                 /\ \A j \in (i + 1)..Len(c.ghostList) : c.ghostList[j] # key
    IN  [c EXCEPT !.ghostList = RemoveAt(@, i)]

ArcLfuCheckGhost(c, key) ==
    IF key \in c.ghostCache_
    THEN [c |-> [ArcLfuRemoveFromGhost(c, key) EXCEPT !.ghostCache_ = @ \ {key}],
          found |-> TRUE]
    ELSE [c |-> c, found |-> FALSE]

ArcLfuRemoveOldestGhost(c) ==
    IF c.ghostList = <<>> THEN c
    ELSE LET oldest == c.ghostList[1]
         IN  [c EXCEPT !.ghostList = RemoveAt(@, 1),
                       !.ghostCache_ = @ \ {oldest}]

ArcLfuAddToGhost(c, node) ==
    [c EXCEPT !.ghostList = Append(@, node.key),
              !.ghostCache_ = @ \cup {node.key}]

ArcLfuEvictLeastFrequent(c) ==
    IF DOMAIN c.freqMap_ = {} THEN c
    ELSE LET bucket == ArcLfuBucket(c.freqMap_, c.minFreq_)
         IN  IF bucket = <<>>
             THEN [c EXCEPT !.freqMap_ = ArcLfuSetBucket(@, c.minFreq_, <<>>)]
             ELSE
             LET victim == c.mainCache_[Head(bucket)]
                 popped == ArcLfuSetBucket(c.freqMap_, c.minFreq_, Tail(bucket))
                 erased == Restrict(popped, DOMAIN popped \ {c.minFreq_})
                 d == IF Tail(bucket) # <<>> THEN [c EXCEPT !.freqMap_ = popped]
                      ELSE [c EXCEPT !.freqMap_ = erased,
                                     !.minFreq_ =
                                        IF DOMAIN erased = {} THEN @
                                        ELSE CHOOSE f \in DOMAIN erased :
                                                 \A g \in DOMAIN erased : f <= g]
                 roomed == IF Cardinality(d.ghostCache_) >= d.ghostCapacity_
                           THEN ArcLfuRemoveOldestGhost(d) ELSE d
             IN  [ArcLfuAddToGhost(roomed, victim)
                     EXCEPT !.mainCache_ = Restrict(@, DOMAIN @ \ {victim.key})]

ArcLfuUpdateNodeFrequency(c, key) ==
    LET oldFreq == c.mainCache_[key].accessCount_
        newFreq == oldFreq + 1
        oldList == SelectSeq(ArcLfuBucket(c.freqMap_, oldFreq), LAMBDA k : k # key)
        removed == IF oldList = <<>>
                   THEN Restrict(c.freqMap_, DOMAIN c.freqMap_ \ {oldFreq})
                   ELSE ArcLfuSetBucket(c.freqMap_, oldFreq, oldList)
    IN  [c EXCEPT !.mainCache_[key].accessCount_ = newFreq,
                  !.minFreq_ = IF oldList = <<>> /\ oldFreq = @ THEN newFreq ELSE @,
                  !.freqMap_ = ArcLfuSetBucket(removed, newFreq,
                                   Append(ArcLfuBucket(removed, newFreq), key))]

ArcLfuUpdateExistingNode(c, key, value) ==
    ArcLfuUpdateNodeFrequency([c EXCEPT !.mainCache_[key].value = value], key)

ArcLfuAddNewNode(c, key, value) ==
    LET roomed == IF Cardinality(DOMAIN c.mainCache_) >= c.capacity_
                  THEN ArcLfuEvictLeastFrequent(c) ELSE c
    IN  [roomed EXCEPT
            !.mainCache_ = [k \in DOMAIN @ \cup {key} |->
                               IF k = key THEN ArcNode(key, value) ELSE @[k]],
            !.freqMap_ = ArcLfuSetBucket(@, 1, Append(ArcLfuBucket(@, 1), key)),
            !.minFreq_ = 1]

ArcLfuPut(c, key, value) ==
    IF c.capacity_ = 0 THEN [c |-> c, ok |-> FALSE]
    ELSE IF key \in DOMAIN c.mainCache_
    THEN [c |-> ArcLfuUpdateExistingNode(c, key, value), ok |-> TRUE]
    ELSE [c |-> ArcLfuAddNewNode(c, key, value), ok |-> TRUE]

ArcLfuGet(c, key, out) ==
    IF key \in DOMAIN c.mainCache_
    THEN LET d == ArcLfuUpdateNodeFrequency(c, key)
         IN  [c |-> d, hit |-> TRUE, value |-> d.mainCache_[key].value]
    ELSE [c |-> c, hit |-> FALSE, value |-> out]

ArcLfuIncreaseCapacity(c) == [c EXCEPT !.capacity_ = @ + 1]

\* mutant of decreaseCapacity: makes room and reports success, capacity_ stays
ArcLfuDecreaseCapacityKeeps(c) ==
    IF c.capacity_ = 0 THEN [c |-> c, ok |-> FALSE]
    ELSE LET roomed == IF Cardinality(DOMAIN c.mainCache_) = c.capacity_
                       THEN ArcLfuEvictLeastFrequent(c) ELSE c
         IN  [c |-> roomed, ok |-> TRUE]

ArcLfuDecreaseCapacity(c) ==
    IF c.capacity_ = 0 THEN [c |-> c, ok |-> FALSE]
    ELSE LET roomed == IF Cardinality(DOMAIN c.mainCache_) = c.capacity_
                       THEN ArcLfuEvictLeastFrequent(c) ELSE c
         IN  [c |-> [roomed EXCEPT !.capacity_ = @ - 1], ok |-> TRUE]

-----------------------------------------------------------------------------
(* ArcCache : the coordinator of the two parts *)

\* the default of the constructor's transformThreshold parameter
DefaultTransformThreshold == 2

ArcCache(capacity, transformThreshold) ==
    [capacity_ |-> capacity, transformThreshold_ |-> transformThreshold,
     lruPart_ |-> ArcLruCache(capacity, transformThreshold),
     lfuPart_ |-> ArcLfuCache(capacity, transformThreshold)]

\* mutant of checkGhostCaches: the side whose ghost was hit grows even when
\* the other side could not shrink
ArcCheckGhostCachesAlwaysGrow(c, key) ==
    LET inLru == ArcLruCheckGhost(c.lruPart_, key)
        inLfu == ArcLfuCheckGhost(c.lfuPart_, key)
    IN  IF inLru.found
        THEN [c |-> [c EXCEPT !.lfuPart_ = ArcLfuDecreaseCapacity(c.lfuPart_).c,
                              !.lruPart_ = ArcLruIncreaseCapacity(inLru.c)],
              inGhost |-> TRUE]
        ELSE IF inLfu.found
        THEN [c |-> [c EXCEPT !.lruPart_ = ArcLruDecreaseCapacity(c.lruPart_).c,
                              !.lfuPart_ = ArcLfuIncreaseCapacity(inLfu.c)],
              inGhost |-> TRUE]
        ELSE [c |-> c, inGhost |-> FALSE]

ArcCheckGhostCaches(c, key) ==
    LET inLru == ArcLruCheckGhost(c.lruPart_, key)
        inLfu == ArcLfuCheckGhost(c.lfuPart_, key)
    IN  IF inLru.found
        THEN LET dec == ArcLfuDecreaseCapacity(c.lfuPart_)
             IN  [c |-> [c EXCEPT !.lfuPart_ = dec.c,
                                  !.lruPart_ = IF dec.ok
                                               THEN ArcLruIncreaseCapacity(inLru.c)
                                               ELSE inLru.c],
                  inGhost |-> TRUE]
        ELSE IF inLfu.found
        THEN LET dec == ArcLruDecreaseCapacity(c.lruPart_)
             IN  [c |-> [c EXCEPT !.lruPart_ = dec.c,
                                  !.lfuPart_ = IF dec.ok
                                               THEN ArcLfuIncreaseCapacity(inLfu.c)
                                               ELSE inLfu.c],
                  inGhost |-> TRUE]
        ELSE [c |-> c, inGhost |-> FALSE]

ArcPutOp(c, key, value) ==
    LET checked == ArcCheckGhostCaches(c, key)
        d == checked.c
        inLru == ArcLruPut(d.lruPart_, key, value)
    IN  IF ~checked.inGhost /\ inLru.ok
        THEN [d EXCEPT !.lruPart_ = inLru.c,
                       !.lfuPart_ = ArcLfuPut(d.lfuPart_, key, value).c]
        ELSE [d EXCEPT !.lruPart_ = inLru.c]

\* get(key, value) : `out` is what the caller's variable held before the call
ArcGetOp(c, key, out) ==
    LET d == ArcCheckGhostCaches(c, key).c
        inLru == ArcLruGet(d.lruPart_, key, out, FALSE)
        inLfu == ArcLfuGet(d.lfuPart_, key, out)
    IN  IF inLru.hit
        THEN [c |-> [d EXCEPT !.lruPart_ = inLru.c,
                              !.lfuPart_ = IF inLru.shouldTransform
                                           THEN ArcLfuPut(@, key, inLru.value).c
                                           ELSE @],
              hit |-> TRUE, value |-> inLru.value]
        ELSE [c |-> [d EXCEPT !.lfuPart_ = inLfu.c],
              hit |-> inLfu.hit, value |-> inLfu.value]

-----------------------------------------------------------------------------
(* Specification SpecLru: one LruCache driven by put / get / remove *)

NoCall == [op |-> "none", key |-> DefaultKey, hit |-> FALSE, value |-> DefaultValue]

InitLfuIdle ==
    /\ lfu = 0 /\ lfuRet = 0 /\ lfuLastPut = 0 /\ lfuSince = 0

InitArcIdle ==
    /\ arc = 0 /\ arcRet = 0 /\ arcLastPut = 0

InitBudgetIdle ==
    /\ lruEvicted = 0 /\ lfuEvicted = 0

InitLrukIdle ==
    /\ lruk = 0 /\ lrukRet = 0 /\ lrukTouched = 0 /\ lrukLastPut = 0
    /\ lrukLost = FALSE

InitHashIdle ==
    /\ hashLru = 0 /\ hashLruRet = 0 /\ hashLruSeen = 0
    /\ hashLfu = 0 /\ hashLfuRet = 0

\* no thread is modelled in the specifications of sequential calls
InitThreadDataIdle ==
    /\ thEngine = 0 /\ thArgs = 0 /\ thIt = 0 /\ thRet = 0 /\ thLin = 0 /\ thSnap = 0

InitThreadsIdle ==
    /\ thCall = 0 /\ thTodo = 0 /\ mutexOwner = 0
    /\ InitThreadDataIdle

\* the wrappers take no call in the specifications of the single engines
InitWrappersIdle == InitLrukIdle /\ InitHashIdle

InitLru ==
    /\ InitThreadsIdle
    /\ InitWrappersIdle
    /\ InitLfuIdle
    /\ InitArcIdle
    /\ InitBudgetIdle
    /\ \E capacity \in 0..LruMaxCapacity :
          /\ lru = LruCache(capacity)
          /\ lruRef = <<capacity, <<>>>>
    /\ lruRet = NoCall
    /\ lruRefRet = NoCall

LruPut ==
    \E key \in LruKeys, value \in Values :
        /\ lru' = LruPutOp(lru, key, value)
        /\ lruRef' = RefPut(lruRef, key, value)
        /\ lruRet' = [op |-> "put", key |-> key, hit |-> FALSE, value |-> value]
        /\ lruRefRet' = lruRet'
        /\ UNCHANGED notLruVars

LruGet ==
    \E key \in LruKeys :
        LET r == LruGetOp(lru, key, DefaultValue)
            q == RefGet(lruRef, key)
        IN  /\ lru' = r.c
            /\ lruRef' = q.r
            /\ lruRet' = [op |-> "get", key |-> key, hit |-> r.hit, value |-> r.value]
            /\ lruRefRet' = [op |-> "get", key |-> key, hit |-> q.hit, value |-> q.value]
            /\ UNCHANGED notLruVars

LruRemove ==
    \E key \in LruKeys :
        /\ lru' = LruRemoveOp(lru, key)
        /\ lruRef' = RefRemove(lruRef, key)
        /\ lruRet' = [op |-> "remove", key |-> key, hit |-> FALSE, value |-> DefaultValue]
        /\ lruRefRet' = lruRet'
        /\ UNCHANGED notLruVars

NextLru == LruPut \/ LruGet \/ LruRemove

SpecLru == InitLru /\ [][NextLru]_vars

-----------------------------------------------------------------------------
(* Specification SpecLfu: one LfuCache driven by put / get *)

LfuConfigs == (0..LfuMaxCapacity) \X LfuThresholds

LfuCallsLeft(c) == c.curTotalNum_ < c.maxAverageNum_ * c.capacity_ + LfuMaxOverrun

\* ids whose node entered its frequency class in the step from c to d
LfuEntered(c, d) ==
    {id \in LfuLinked(d) : \/ id \notin DOMAIN c.nodes
                           \/ c.nodes[id].key # d.nodes[id].key
                           \/ id \notin LfuLinked(c)
                           \/ c.nodes[id].freq # d.nodes[id].freq}

\* groups of ids, the group longest in its class first
LfuSinceAfter(since, c, d, fresh) ==
    LET entered == LfuEntered(c, d) \cup fresh
        kept == [i \in 1..Len(since) |-> (since[i] \cap LfuLinked(d)) \ entered]
        old == SelectSeq(kept, LAMBDA g : g # {})
    IN  IF entered = {} THEN old ELSE Append(old, entered)

InitLruIdle ==
    /\ lru = 0 /\ lruRef = 0 /\ lruRet = 0 /\ lruRefRet = 0

InitLfu ==
    /\ InitThreadsIdle
    /\ InitWrappersIdle
    /\ InitLruIdle
    /\ InitArcIdle
    /\ InitBudgetIdle
    /\ \E cfg \in LfuConfigs : lfu = LfuCache(cfg[1], cfg[2])
    /\ lfuRet = NoCall
    /\ lfuLastPut = [k \in LfuKeys |-> DefaultValue]
    /\ lfuSince = <<>>

\* one call of put, with what the specification records of it
LfuPutCall(keys, track) ==
    \E key \in keys, value \in Values :
        /\ key \in DOMAIN lfu.nodeMap_ \/ LfuFreeNames(lfu, key) # {}
        /\ \E d \in LfuPutOp(lfu, key, value) :
            /\ lfu' = d
            /\ lfuRet' = [op |-> "put", key |-> key, hit |-> FALSE, value |-> value]
            /\ lfuLastPut' = IF track = "lastPut"
                              THEN [lfuLastPut EXCEPT ![key] = value] ELSE lfuLastPut
            /\ lfuSince' = IF track = "since"
                            THEN LfuSinceAfter(lfuSince, lfu, d,
                                    IF key \in DOMAIN lfu.nodeMap_ \/ lfu.capacity_ = 0
                                    THEN {} ELSE {d.nodeMap_[key]})
                            ELSE lfuSince
            /\ UNCHANGED notLfuVars

\* one call of get
LfuGetCall(keys, track) ==
    \E key \in keys :
       \E r \in LfuGetOp(lfu, key, DefaultValue) :
        /\ lfu' = r.c
        /\ lfuRet' = [op |-> "get", key |-> key, hit |-> r.hit, value |-> r.value]
        /\ lfuSince' = IF track = "since"
                        THEN LfuSinceAfter(lfuSince, lfu, r.c, {}) ELSE lfuSince
        /\ UNCHANGED <<lfuLastPut, notLfuVars>>

LfuPutIn(keys, track) == LfuCallsLeft(lfu) /\ LfuPutCall(keys, track)

LfuGetIn(keys, track) == LfuCallsLeft(lfu) /\ LfuGetCall(keys, track)

LfuPut == LfuPutIn(LfuKeys, "lastPut")

LfuGet == LfuGetIn(LfuKeys, "lastPut")

NextLfu == LfuPut \/ LfuGet

SpecLfu == InitLfu /\ [][NextLfu]_vars

(* Specification SpecLfuLarge: an LfuCache of capacity 1 whose threshold is
   several hundred, as in the demo: one key is put and hit, and the other
   keys are put once the hits have passed the threshold.  It records lfuSince
   and not lfuLastPut; SpecLfu records lfuLastPut and not lfuSince *)

LfuLargeKeys == 0..LfuLargeMaxKey

LfuLargeKeysNow ==
    IF DOMAIN lfu.nodeMap_ = {} \/ lfu.curTotalNum_ > lfu.maxAverageNum_
    THEN LfuLargeKeys ELSE DOMAIN lfu.nodeMap_

InitLfuLarge ==
    /\ InitThreadsIdle
    /\ InitWrappersIdle
    /\ InitLruIdle
    /\ InitArcIdle
    /\ InitBudgetIdle
    /\ lfu = LfuCache(1, LfuLargeThreshold)
    /\ lfuRet = NoCall
    /\ lfuLastPut = [k \in LfuKeys |-> DefaultValue]
    /\ lfuSince = <<>>

LfuLargePut == LfuPutIn(LfuLargeKeysNow, "since")

LfuLargeGet == LfuGetIn(LfuLargeKeys, "since")

NextLfuLarge == LfuLargePut \/ LfuLargeGet

SpecLfuLarge == InitLfuLarge /\ [][NextLfuLarge]_vars

(* Specification SpecLfuWorn: an LfuCache of capacity 1 and threshold 2 that
   has been in use for a long time.  addFreqNum counts every put and every
   hit in curTotalNum_; kickOut takes the evicted node's freq off it; the
   aging pass lowers the node's freq and leaves curTotalNum_ alone.  So after
   put(key, value) and total - 1 hits of the key, total >= 3, the node has
   been aged back to freq 2 by each hit and curTotalNum_ is total.  The
   specification starts in that state a few calls before curTotalNum_
   reaches INT_MAX *)

\* the calls made before curTotalNum_ is INT_MAX, and made after it has come round
LfuWornRunway == 3

\* the engine after put(key, value) and total - 1 calls of get(key), total >= 3
LfuWorn(key, value, total) ==
    LET id == <<key, 0>>
    IN  [LfuCache(1, 2) EXCEPT
            !.nodes = id :> [freq |-> 2, key |-> key, value |-> value],
            !.nodeMap_ = key :> id,
            !.freqToFreqList_ = (1 :> <<>>) @@ (2 :> <<id>>) @@ (3 :> <<>>),
            !.minFreq_ = 2,
            !.curTotalNum_ = total,
            !.curAverageNum_ = total]

LfuWornCallsLeft(c) ==
    \/ c.curTotalNum_ >= INT_MAX - LfuWornRunway
    \/ c.curTotalNum_ < INT_MIN + LfuWornRunway

InitLfuWorn ==
    /\ InitThreadsIdle
    /\ InitWrappersIdle
    /\ InitLruIdle
    /\ InitArcIdle
    /\ InitBudgetIdle
    /\ \E key \in LfuKeys, value \in Values :
        /\ lfu = LfuWorn(key, value, INT_MAX - LfuWornRunway)
        /\ lfuRet = [op |-> "get", key |-> key, hit |-> TRUE, value |-> value]
        /\ lfuLastPut = [k \in LfuKeys |-> IF k = key THEN value ELSE DefaultValue]
    /\ lfuSince = <<>>

LfuWornPut == LfuWornCallsLeft(lfu) /\ LfuPutCall(LfuKeys, "lastPut")

LfuWornGet == LfuWornCallsLeft(lfu) /\ LfuGetCall(LfuKeys, "lastPut")

NextLfuWorn == LfuWornPut \/ LfuWornGet

SpecLfuWorn == InitLfuWorn /\ [][NextLfuWorn]_vars

-----------------------------------------------------------------------------
(* Specification SpecArc: one ArcCache driven by put / get *)

ArcKeys == 0..ArcMaxKey

\* the access counts grow with every hit: a call is made while the counts
\* of its key are below maxCount
ArcCountsLeft(c, key, maxCount) ==
    /\ key \in c.lruPart_.mainCache_
          => NodeOf(c.lruPart_.mainList, key).accessCount_ < maxCount
    /\ key \in DOMAIN c.lfuPart_.mainCache_
          => c.lfuPart_.mainCache_[key].accessCount_ < maxCount

\* a ghost list can keep nodes that its map no longer holds: a call is made
\* while each list has at most maxUnindexed of them
ArcGhostsLeft(c, maxUnindexed) ==
    /\ Len(c.lruPart_.ghostList) - Cardinality(c.lruPart_.ghostCache_) <= maxUnindexed
    /\ Len(c.lfuPart_.ghostList) - Cardinality(c.lfuPart_.ghostCache_) <= maxUnindexed

InitArcIn(capacities, keys) ==
    /\ InitThreadsIdle
    /\ InitWrappersIdle
    /\ InitLruIdle
    /\ InitLfuIdle
    /\ InitBudgetIdle
    /\ \E capacity \in capacities :
          arc = ArcCache(capacity, DefaultTransformThreshold)
    /\ arcRet = NoCall
    /\ arcLastPut = [k \in keys |-> DefaultValue]

ArcPutIn(keys, values, maxCount, maxUnindexed) ==
    \E key \in keys, value \in values :
        /\ ArcGhostsLeft(arc, maxUnindexed)
        /\ ArcCountsLeft(arc, key, maxCount)
        /\ arc' = ArcPutOp(arc, key, value)
        /\ arcRet' = [op |-> "put", key |-> key, hit |-> FALSE, value |-> value]
        /\ arcLastPut' = [arcLastPut EXCEPT ![key] = value]
        /\ UNCHANGED notArcVars

ArcGetIn(keys, maxCount, maxUnindexed) ==
    \E key \in keys :
        LET r == ArcGetOp(arc, key, DefaultValue)
        IN  /\ ArcGhostsLeft(arc, maxUnindexed)
            /\ ArcCountsLeft(arc, key, maxCount)
            /\ arc' = r.c
            /\ arcRet' = [op |-> "get", key |-> key, hit |-> r.hit, value |-> r.value]
            /\ UNCHANGED <<arcLastPut, notArcVars>>

InitArc == InitArcIn(0..ArcMaxCapacity, ArcKeys)

ArcPut == ArcPutIn(ArcKeys, Values, ArcMaxCount, ArcMaxUnindexed)

ArcGet == ArcGetIn(ArcKeys, ArcMaxCount, ArcMaxUnindexed)

NextArc == ArcPut \/ ArcGet

SpecArc == InitArc /\ [][NextArc]_vars

(* Specification SpecArcWide: an ArcCache of capacity 1..ArcMaxCapacity
   driven with one more key and a single value, where the two parts evict
   different keys often enough for the capacity of a part to reach 0 *)

ArcWideKeys == 0..ArcWideMaxKey

ArcWideValues == {1}

InitArcWide == InitArcIn(1..ArcMaxCapacity, ArcWideKeys)

ArcWidePut == ArcPutIn(ArcWideKeys, ArcWideValues, ArcWideMaxCount, ArcMaxUnindexed)

ArcWideGet == ArcGetIn(ArcWideKeys, ArcWideMaxCount, ArcMaxUnindexed)

NextArcWide == ArcWidePut \/ ArcWideGet

SpecArcWide == InitArcWide /\ [][NextArcWide]_vars

(* Specification SpecArcGhost: an ArcCache driven with a single value while
   a ghost list has at most ArcGhostMaxUnindexed nodes outside its map:
   calls are made after a ghost list has come to hold such a node *)

InitArcGhost == InitArcIn(1..ArcMaxCapacity, ArcKeys)

ArcGhostPut == ArcPutIn(ArcKeys, ArcWideValues, ArcMaxCount, ArcGhostMaxUnindexed)

ArcGhostGet == ArcGetIn(ArcKeys, ArcMaxCount, ArcGhostMaxUnindexed)

NextArcGhost == ArcGhostPut \/ ArcGhostGet

SpecArcGhost == InitArcGhost /\ [][NextArcGhost]_vars

(* Specification SpecZero: an LruCache, an LfuCache and an ArcCache, each
   constructed with capacity 0 and driven by its public methods *)

ZeroKeys == 0..ZeroMaxKey

InitZero ==
    /\ InitThreadsIdle
    /\ InitWrappersIdle
    /\ InitBudgetIdle
    /\ lru = LruCache(0)
    /\ lruRef = <<0, <<>>>>
    /\ lruRet = NoCall
    /\ lruRefRet = NoCall
    /\ \E maxAverageNum \in LfuThresholds : lfu = LfuCache(0, maxAverageNum)
    /\ lfuRet = NoCall
    /\ lfuLastPut = [k \in LfuKeys |-> DefaultValue]
    /\ lfuSince = <<>>
    /\ arc = ArcCache(0, DefaultTransformThreshold)
    /\ arcRet = NoCall
    /\ arcLastPut = [k \in ZeroKeys |-> DefaultValue]

ZeroLfuPut == LfuPutIn(ZeroKeys, "none")

ZeroLfuGet == LfuGetIn(ZeroKeys, "none")

ZeroArcPut == ArcPutIn(ZeroKeys, Values, ArcMaxCount, ArcMaxUnindexed)

ZeroArcGet == ArcGetIn(ZeroKeys, ArcMaxCount, ArcMaxUnindexed)

NextZero ==
    \/ LruPut \/ LruGet \/ LruRemove
    \/ ZeroLfuPut \/ ZeroLfuGet
    \/ ZeroArcPut \/ ZeroArcGet

SpecZero == InitZero /\ [][NextZero]_vars

(* Specification SpecBudget: an LruCache and an LfuCache that take puts
   of pairwise distinct keys (0, 1, 2, ... in turn) and no other call; the
   entries each put evicts are counted *)

\* the puts an engine has taken: the keys come in turn
BudgetPuts(ret) == IF ret.op = "none" THEN 0 ELSE ret.key + 1

InitBudget ==
    /\ InitThreadsIdle
    /\ InitWrappersIdle
    /\ InitArcIdle
    /\ \E capacity \in 0..LruMaxCapacity :
          /\ lru = LruCache(capacity)
          /\ lruRef = <<capacity, <<>>>>
    /\ lruRet = NoCall
    /\ lruRefRet = NoCall
    /\ \E cfg \in LfuConfigs : lfu = LfuCache(cfg[1], cfg[2])
    /\ lfuRet = NoCall
    /\ lfuLastPut = [k \in LfuKeys |-> DefaultValue]
    /\ lfuSince = <<>>
    /\ lruEvicted = 0
    /\ lfuEvicted = 0

BudgetLruPut ==
    \E value \in Values :
        LET key == BudgetPuts(lruRet)
        IN  /\ key <= BudgetMaxKey
            /\ lru' = LruPutOp(lru, key, value)
            /\ lruRef' = RefPut(lruRef, key, value)
            /\ lruRet' = [op |-> "put", key |-> key, hit |-> FALSE, value |-> value]
            /\ lruRefRet' = lruRet'
            /\ lruEvicted' = lruEvicted + Cardinality(lru.nodeMap_ \ lru'.nodeMap_)
            /\ UNCHANGED <<lfuVars, arcVars, lfuEvicted, lrukVars, hashVars, threadVars>>

BudgetLfuPut ==
    \E value \in Values :
        LET key == BudgetPuts(lfuRet)
        IN  /\ key <= BudgetMaxKey
            /\ \E d \in LfuPutOp(lfu, key, value) :
                  /\ lfu' = d
                  /\ lfuEvicted' = lfuEvicted
                         + Cardinality(DOMAIN lfu.nodeMap_ \ DOMAIN d.nodeMap_)
            /\ lfuRet' = [op |-> "put", key |-> key, hit |-> FALSE, value |-> value]
            /\ UNCHANGED <<lfuLastPut, lfuSince, lruVars, arcVars, lruEvicted, lrukVars, hashVars, threadVars>>

NextBudget == BudgetLruPut \/ BudgetLfuPut

SpecBudget == InitBudget /\ [][NextBudget]_vars

-----------------------------------------------------------------------------
(* Claims about LruCache *)

LruEntries == [i \in 1..Len(lru.list) |->
                  [key |-> lru.list[i].key, value |-> lru.list[i].value]]

\* C1: an LruCache of capacity >= 1 and the reference LRU driven by the same
\* calls hold the same keys in the same recency order with the same values,
\* and every get returns the same hit flag and value as the reference (hit
\* with the value of the latest put exactly when the reference holds the key).
C1_LruRefinesReference ==
    lru.capacity_ >= 1 =>
        /\ LruEntries = lruRef[2]
        /\ lru.nodeMap_ = SeqKeys(lruRef[2])
        /\ lruRet = lruRefRet
        /\ (lruRet.op = "get" /\ ~lruRet.hit) => lruRet.value = DefaultValue

\* C1 witness: the scenario put(0), put(1), get(0), put(2), get(1) at capacity 2:
\* key 1 was evicted, get(1) misses and the residents are 0 then 2.
C1_Witness ==
    /\ lru.capacity_ = 2
    /\ lruRet.op = "get" /\ lruRet.key = 1 /\ ~lruRet.hit
    /\ KeyList(lru.list) = <<0, 2>>

\* C6: the index holds at most capacity_ keys, the recency list holds exactly
\* the indexed keys, each once, and its head-to-tail order is the order of
\* last use (LRU first): the key put or hit last is next to the tail.
C6_LruStructure ==
    /\ Cardinality(lru.nodeMap_) <= lru.capacity_
    /\ SeqKeys(lru.list) = lru.nodeMap_
    /\ Len(lru.list) = Cardinality(lru.nodeMap_)
    /\ NoDuplicates(lru.list)
    /\ KeyList(lru.list) = KeyList(lruRef[2])
    /\ (lru.capacity_ >= 1 /\ (lruRet.op = "put" \/ (lruRet.op = "get" /\ lruRet.hit)))
           => lru.list[Len(lru.list)].key = lruRet.key

\* C6 witness: a full cache whose least recently used key was put last but one
\* and then overtaken by a hit on the other key.
C6_Witness ==
    /\ lru.capacity_ = 2
    /\ Len(lru.list) = 2
    /\ lruRet.op = "get" /\ lruRet.hit
    /\ lru.list[1].key > lru.list[2].key

-----------------------------------------------------------------------------
(* Claims about LfuCache *)

\* the number of nodes linked in the frequency lists
LfuLinkedCount(c) ==
    Cardinality(UNION {{<<f, i>> : i \in 1..Len(c.freqToFreqList_[f])} :
                          f \in DOMAIN c.freqToFreqList_})

LfuLiveIds(c) == {c.nodeMap_[k] : k \in DOMAIN c.nodeMap_}

\* C5: the index of an LfuCache never holds more than capacity_ keys and holds
\* as many keys as there are nodes linked in the frequency lists, for every
\* positive maxAverageNum_.
C5_LfuWithinCapacity ==
    /\ LfuSize(lfu) <= lfu.capacity_
    /\ LfuSize(lfu) = LfuLinkedCount(lfu)

\* C9: on a non-empty LfuCache minFreq_ is the smallest frequency whose list is
\* non-empty, and every indexed node is linked in exactly the list of its freq.
C9_LfuBuckets ==
    LfuSize(lfu) > 0 =>
        /\ lfu.minFreq_ \in DOMAIN lfu.freqToFreqList_
        /\ lfu.freqToFreqList_[lfu.minFreq_] # <<>>
        /\ \A f \in DOMAIN lfu.freqToFreqList_ :
               lfu.freqToFreqList_[f] # <<>> => lfu.minFreq_ <= f
        /\ \A id \in LfuLiveIds(lfu) : \A f \in DOMAIN lfu.freqToFreqList_ :
               Cardinality({i \in 1..Len(lfu.freqToFreqList_[f]) :
                               lfu.freqToFreqList_[f][i] = id})
                 = (IF f = lfu.nodes[id].freq THEN 1 ELSE 0)

\* C7: with capacity >= 1 a get of the key just put hits and copies out the
\* value just put, and every get that hits copies out the value of the latest
\* put of its key.
C7_LfuReadYourWrites ==
    /\ (lfu.capacity_ >= 1 /\ lfuRet.op = "put") =>
           \A r \in LfuGetOp(lfu, lfuRet.key, DefaultValue) :
               r.hit /\ r.value = lfuRet.value
    /\ (lfuRet.op = "get" /\ lfuRet.hit) => lfuRet.value = lfuLastPut[lfuRet.key]

\* C7 witness: a get hits a key that was put, hit and put again with another
\* value, in a cache that holds a second key.
C7_Witness ==
    /\ lfuRet.op = "get" /\ lfuRet.hit /\ lfuRet.value = 2
    /\ LfuSize(lfu) = 2
    /\ lfu.nodes[lfu.nodeMap_[lfuRet.key]].freq >= 3

LfuGroupOf(since, id) == CHOOSE i \in 1..Len(since) : id \in since[i]

\* C8: a put of a new key that finds size == capacity evicts one entry, which
\* has the smallest freq of all live entries and, among those of that freq, has
\* been in its frequency class the longest.
C8_LfuEvictionChoice ==
    [][ ( /\ lfuRet'.op = "put"
          /\ lfu.capacity_ >= 1
          /\ lfuRet'.key \notin DOMAIN lfu.nodeMap_
          /\ LfuSize(lfu) = lfu.capacity_ )
        => \E victim \in DOMAIN lfu.nodeMap_ :
              /\ DOMAIN lfu'.nodeMap_ = (DOMAIN lfu.nodeMap_ \ {victim}) \cup {lfuRet'.key}
              /\ lfu.nodeMap_[victim] \notin LfuLinked(lfu')
              /\ \A k \in DOMAIN lfu.nodeMap_ :
                    /\ lfu.nodes[lfu.nodeMap_[victim]].freq <= lfu.nodes[lfu.nodeMap_[k]].freq
                    /\ lfu.nodes[lfu.nodeMap_[victim]].freq = lfu.nodes[lfu.nodeMap_[k]].freq
                         => LfuGroupOf(lfuSince, lfu.nodeMap_[victim])
                              <= LfuGroupOf(lfuSince, lfu.nodeMap_[k])
      ]_vars

-----------------------------------------------------------------------------
(* Claims about ArcCache *)

\* the keys held with a value in T1 or in T2
ArcLiveKeys(c) == c.lruPart_.mainCache_ \cup DOMAIN c.lfuPart_.mainCache_

\* the values held for a live key on the two sides
ArcLiveValues(c, key) ==
    {NodeOf(c.lruPart_.mainList, key).value : k \in {key} \cap c.lruPart_.mainCache_}
    \cup {c.lfuPart_.mainCache_[key].value : k \in {key} \cap DOMAIN c.lfuPart_.mainCache_}

\* C2: with capacity >= 1, whenever get(k, out) returns true, out is the
\* value passed to the most recent put(k, .), whichever side serves the hit
C2_ArcNeverStale ==
    (arc.capacity_ >= 1 /\ arcRet.op = "get" /\ arcRet.hit)
        => arcRet.value = arcLastPut[arcRet.key]

\* C3: with capacity >= 1, in every reachable state put(k, v) immediately
\* followed by get(k, out) returns true with out = v
C3_ArcAdmitsEveryPut ==
    (arc.capacity_ >= 1 /\ arcRet.op = "put")
        => LET r == ArcGetOp(arc, arcRet.key, DefaultValue)
           IN  r.hit /\ r.value = arcRet.value

\* C4: get(k, out) returns true with k's value when k is live in T1 or in
\* T2 immediately before the call, and false only when k is live on neither
\* side before the call
C4_ArcGetHitsLiveKeys ==
    [][arcRet'.op = "get" =>
          /\ arcRet'.hit <=> arcRet'.key \in ArcLiveKeys(arc)
          /\ arcRet'.hit => arcRet'.value \in ArcLiveValues(arc, arcRet'.key)]_vars

\* C10: the number of distinct keys live in T1 or in T2 is at most the
\* capacity the ArcCache was constructed with
C10_ArcWithinCapacity ==
    Cardinality(ArcLiveKeys(arc)) <= arc.capacity_

\* the keys a ghost list holds, in its map or linked in its list
ArcGhostKeys(part) == part.ghostCache_ \cup {part.ghostList[i] : i \in 1..Len(part.ghostList)}

\* C11: after every put / get, on each side no key is both live and in the
\* side's ghost list
C11_ArcExclusiveMembership ==
    /\ arc.lruPart_.mainCache_ \cap ArcGhostKeys(arc.lruPart_) = {}
    /\ DOMAIN arc.lfuPart_.mainCache_ \cap ArcGhostKeys(arc.lfuPart_) = {}

\* C12: after every put / get, each side holds at most its current capacity
\* of live entries and at most its ghost capacity of ghost entries
C12_ArcSizeBounds ==
    /\ Cardinality(arc.lruPart_.mainCache_) <= arc.lruPart_.capacity_
    /\ Cardinality(DOMAIN arc.lfuPart_.mainCache_) <= arc.lfuPart_.capacity_
    /\ Len(arc.lruPart_.ghostList) <= arc.lruPart_.ghostCapacity_
    /\ Cardinality(arc.lruPart_.ghostCache_) <= arc.lruPart_.ghostCapacity_
    /\ Len(arc.lfuPart_.ghostList) <= arc.lfuPart_.ghostCapacity_
    /\ Cardinality(arc.lfuPart_.ghostCache_) <= arc.lfuPart_.ghostCapacity_

\* the capacities of T1 and T2
ArcCapacities(c) == <<c.lruPart_.capacity_, c.lfuPart_.capacity_>>

C14_CapacityZeroQuiescent ==
    /\ lru = LruCache(0)
    /\ lfu = LfuCache(0, lfu.maxAverageNum_)
    /\ arc = ArcCache(0, DefaultTransformThreshold)
    /\ lruRet.op = "get" => ~lruRet.hit
    /\ lfuRet.op = "get" => ~lfuRet.hit
    /\ arcRet.op = "get" => ~arcRet.hit

\* each of the three engines has answered a get, the ArcCache after a put
\* of the same key
C14_Witness ==
    /\ lruRet.op = "get" /\ lruRet.key = 1
    /\ lfuRet.op = "get" /\ lfuRet.key = 1
    /\ arcRet.op = "get" /\ arcRet.key = 1 /\ arcLastPut[1] = 2

Max(a, b) == IF a > b THEN a ELSE b

\* C15 as stated: after N puts of pairwise distinct keys and no other call,
\* an LruCache and an LfuCache of capacity C have evicted exactly
\* max(0, N - C) entries and hold exactly min(N, C) keys
C15_EvictionBudget ==
    /\ lruEvicted = Max(0, BudgetPuts(lruRet) - lru.capacity_)
    /\ Cardinality(lru.nodeMap_) = Min(BudgetPuts(lruRet), lru.capacity_)
    /\ lfuEvicted = Max(0, BudgetPuts(lfuRet) - lfu.capacity_)
    /\ LfuSize(lfu) = Min(BudgetPuts(lfuRet), lfu.capacity_)

\* the evictions an engine of capacity C has made after N puts of distinct
\* keys: none at capacity 0, where no put admits anything
BudgetEvictions(N, C) == IF C = 0 THEN 0 ELSE Max(0, N - C)

\* C15 amended: the budget holds for capacity C >= 1 (so each put of a new
\* key at capacity evicts exactly one entry); with capacity 0 nothing is
\* admitted and nothing is evicted
C15_EvictionBudgetPositive ==
    /\ lruEvicted = BudgetEvictions(BudgetPuts(lruRet), lru.capacity_)
    /\ Cardinality(lru.nodeMap_) = Min(BudgetPuts(lruRet), lru.capacity_)
    /\ Len(lru.list) = Cardinality(lru.nodeMap_)
    /\ lfuEvicted = BudgetEvictions(BudgetPuts(lfuRet), lfu.capacity_)
    /\ LfuSize(lfu) = Min(BudgetPuts(lfuRet), lfu.capacity_)
    /\ LfuLinkedCount(lfu) = LfuSize(lfu)

\* both engines have capacity 2, have taken 4 puts and have evicted twice
C15_Witness ==
    /\ lru.capacity_ = 2 /\ BudgetPuts(lruRet) = 4 /\ lruEvicted = 2
    /\ lfu.capacity_ = 2 /\ BudgetPuts(lfuRet) = 4 /\ lfuEvicted = 2

-----------------------------------------------------------------------------
(* KLruKCache: an LruCache (the base class, the main cache) in front of
   which a second LruCache counts the accesses of the keys that are not
   admitted yet, and a map keeps the value such a key was last put with *)

LrukKeys == 0..LrukMaxKey

\* KLruKCache(int capacity, int historyCapacity, int k)
KLruKCache(capacity, historyCapacity, k) ==
    [base |-> LruCache(capacity),
     historyList_ |-> LruCache(historyCapacity),
     historyValueMap_ |-> <<>>,
     k_ |-> k]

\* historyList_->get(key) (0 when the key is not recorded), the increment
\* and historyList_->put(key, historyCount)
LrukCountAccess(history, key) ==
    LET r == LruGetOp(history, key, 0)
        historyCount == r.value + 1
    IN  [history |-> LruPutOp(r.c, key, historyCount), historyCount |-> historyCount]

LrukErase(map, key) == [j \in DOMAIN map \ {key} |-> map[j]]

\* mutant of historyValueMap_[key] = value: a value already stored is kept
LrukStoreFirst(map, key, value) ==
    [j \in DOMAIN map \cup {key} |->
        IF j \in DOMAIN map THEN map[j] ELSE value]

LrukStore(map, key, value) ==
    [j \in DOMAIN map \cup {key} |-> IF j = key THEN value ELSE map[j]]

\* move the key from the history into the main cache
LrukPromote(c, base, history, key, value) ==
    [c EXCEPT !.historyList_ = LruRemoveOp(history, key),
              !.historyValueMap_ = LrukErase(@, key),
              !.base = LruPutOp(base, key, value)]

\* mutant of get(Key): the key is promoted without a stored value
LrukGetOpUnstored(c, key) ==
    LET r == LruGetOp(c.base, key, DefaultValue)
        h == LrukCountAccess(c.historyList_, key)
    IN  IF r.hit
        THEN [c |-> [c EXCEPT !.base = r.c, !.historyList_ = h.history],
              value |-> r.value]
        ELSE IF h.historyCount >= c.k_
             THEN LET storedValue == IF key \in DOMAIN c.historyValueMap_
                                     THEN c.historyValueMap_[key] ELSE DefaultValue
                  IN  [c |-> LrukPromote(c, r.c, h.history, key, storedValue),
                       value |-> storedValue]
             ELSE [c |-> [c EXCEPT !.base = r.c, !.historyList_ = h.history],
                   value |-> r.value]

\* Value get(Key)
LrukGetOp(c, key) ==
    LET r == LruGetOp(c.base, key, DefaultValue)
        h == LrukCountAccess(c.historyList_, key)
    IN  IF r.hit
        THEN [c |-> [c EXCEPT !.base = r.c, !.historyList_ = h.history],
              value |-> r.value]
        ELSE IF h.historyCount >= c.k_ /\ key \in DOMAIN c.historyValueMap_
             THEN LET storedValue == c.historyValueMap_[key]
                  IN  [c |-> LrukPromote(c, r.c, h.history, key, storedValue),
                       value |-> storedValue]
             ELSE [c |-> [c EXCEPT !.base = r.c, !.historyList_ = h.history],
                   value |-> r.value]

\* void put(Key, Value)
LrukPutOp(c, key, value) ==
    LET r == LruGetOp(c.base, key, DefaultValue)
    IN  IF r.hit
        THEN [c EXCEPT !.base = LruPutOp(r.c, key, value)]
        ELSE LET h == LrukCountAccess(c.historyList_, key)
                 stored == [c EXCEPT !.base = r.c,
                                     !.historyList_ = h.history,
                                     !.historyValueMap_ = LrukStore(@, key, value)]
             IN  IF h.historyCount >= c.k_
                 THEN LrukPromote(stored, r.c, h.history, key, value)
                 ELSE stored

\* bool get(Key, Value&): KLruKCache does not override it, the call runs
\* LruCache::get on the main cache
LrukGetOutOp(c, key, out) ==
    LET r == LruGetOp(c.base, key, out)
    IN  [c |-> [c EXCEPT !.base = r.c], hit |-> r.hit, value |-> r.value]

-----------------------------------------------------------------------------
(* Specification SpecLruk: one KLruKCache driven by put and the two gets *)

LrukConfigs ==
    (0..LrukMaxCapacity) \X (0..LrukMaxHistory) \X (1..LrukMaxK)

\* the call on `key` forgot a key of the history or evicted one from main:
\* another key left the history, the key itself is recorded nowhere after
\* the call, or a key left the main cache
LrukLoses(c, d, key) ==
    \/ (c.historyList_.nodeMap_ \ d.historyList_.nodeMap_) \ {key} # {}
    \/ key \notin d.historyList_.nodeMap_ \cup d.base.nodeMap_
    \/ c.base.nodeMap_ \ d.base.nodeMap_ # {}

InitLruk ==
    /\ InitThreadsIdle
    /\ InitLruIdle
    /\ InitLfuIdle
    /\ InitArcIdle
    /\ InitBudgetIdle
    /\ InitHashIdle
    /\ \E cfg \in LrukConfigs : lruk = KLruKCache(cfg[1], cfg[2], cfg[3])
    /\ lrukRet = NoCall
    /\ lrukTouched = [k \in LrukKeys |-> 0]
    /\ lrukLastPut = [k \in LrukKeys |-> DefaultValue]
    /\ lrukLost = FALSE

LrukPut ==
    \E key \in LrukKeys, value \in Values :
        /\ lrukTouched[key] < LrukMaxTouches
        /\ lruk' = LrukPutOp(lruk, key, value)
        /\ lrukRet' = [op |-> "put", key |-> key, hit |-> FALSE, value |-> value]
        /\ lrukTouched' = [lrukTouched EXCEPT ![key] = @ + 1]
        /\ lrukLastPut' = [lrukLastPut EXCEPT ![key] = value]
        /\ lrukLost' = (lrukLost \/ LrukLoses(lruk, lruk', key))
        /\ UNCHANGED notLrukVars

LrukGet ==
    \E key \in LrukKeys :
        LET r == LrukGetOp(lruk, key)
        IN  /\ lrukTouched[key] < LrukMaxTouches
            /\ lruk' = r.c
            /\ lrukRet' = [op |-> "get", key |-> key, hit |-> FALSE, value |-> r.value]
            /\ lrukTouched' = [lrukTouched EXCEPT ![key] = @ + 1]
            /\ lrukLost' = (lrukLost \/ LrukLoses(lruk, r.c, key))
            /\ UNCHANGED <<lrukLastPut, notLrukVars>>

LrukGetOut ==
    \E key \in LrukKeys :
        LET r == LrukGetOutOp(lruk, key, DefaultValue)
        IN  /\ lruk' = r.c
            /\ lrukRet' = [op |-> "getOut", key |-> key, hit |-> r.hit, value |-> r.value]
            /\ UNCHANGED <<lrukTouched, lrukLastPut, lrukLost, notLrukVars>>

NextLruk == LrukPut \/ LrukGet \/ LrukGetOut

SpecLruk == InitLruk /\ [][NextLruk]_vars

-----------------------------------------------------------------------------
(* Claims about KLruKCache *)

LrukLive == lruk.base.nodeMap_

\* C16: LRU-K promotion law.  A key is live in the main cache exactly when it
\* has been put or get at least K times in succession, as long as the
\* history has forgotten no key and the main cache has evicted none.
C16_LrukPromotionLaw ==
    ~lrukLost =>
        \A key \in LrukKeys : key \in LrukLive <=> lrukTouched[key] >= lruk.k_

\* C16 (amended): a key live in the main cache has been put at least once and
\* touched at least K times; and as long as the history has forgotten no key
\* and the main cache (of capacity >= 1) has evicted none, every key that has
\* been put at least once and touched at least K times is live.
C16_LrukPromotionLawPending ==
    \A key \in LrukKeys :
        LET eligible == lrukTouched[key] >= lruk.k_ /\ lrukLastPut[key] # DefaultValue
        IN  /\ key \in LrukLive => eligible
            /\ (~lrukLost /\ lruk.base.capacity_ >= 1 /\ eligible) => key \in LrukLive

\* a key was admitted by its K-th touch, a get, with a value pending, and
\* nothing was forgotten or evicted
C16_Witness ==
    /\ ~lrukLost
    /\ lruk.k_ = 2
    /\ lrukRet.op = "get"
    /\ lrukTouched[lrukRet.key] = 2
    /\ lrukRet.key \in LrukLive
    /\ \E key \in LrukKeys : lrukTouched[key] >= 2 /\ key \notin LrukLive

\* C17: LRU-K never admits early.  A key touched (put or get(Key)) fewer than
\* K times in total is not live in the main cache, a get(Key) that is the
\* j-th touch of its key with j < K returns the default value, and a key
\* that enters the main cache enters it with the value of its latest put.
C17_LrukNeverAdmitsEarly ==
    [][/\ \A key \in LrukKeys :
             lrukTouched'[key] < lruk'.k_ => key \notin lruk'.base.nodeMap_
       /\ (lrukRet'.op = "get" /\ lrukTouched'[lrukRet'.key] < lruk'.k_)
              => lrukRet'.value = DefaultValue
       /\ \A key \in lruk'.base.nodeMap_ \ lruk.base.nodeMap_ :
             NodeOf(lruk'.base.list, key).value = lrukLastPut'[key]]_vars

\* a get(Key), the K-th touch of its key, admitted the key with the second
\* of the two values it was put with
C17_Witness ==
    /\ lruk.k_ = 2
    /\ lrukRet.op = "get"
    /\ lrukTouched[lrukRet.key] = 3
    /\ lrukRet.key \in LrukLive
    /\ lrukRet.value = 2
    /\ lrukLastPut[lrukRet.key] = 2
    /\ lrukLost

-----------------------------------------------------------------------------
(* The value-returning get of the engines behind CacheStrategy *)

\* Value LruCache::get(Key)
LruGetValueOp(c, key) ==
    LET r == LruGetOp(c, key, DefaultValue)
    IN  [c |-> r.c, value |-> r.value]

\* the outcomes of Value LfuCache::get(Key)
LfuGetValueOp(c, key) ==
    {[c |-> r.c, value |-> r.value] : r \in LfuGetOp(c, key, DefaultValue)}

\* Value ArcCache::get(Key)
ArcGetValueOp(c, key) ==
    LET r == ArcGetOp(c, key, DefaultValue)
    IN  [c |-> r.c, value |-> r.value]

-----------------------------------------------------------------------------
(* Specification SpecForms: a CacheStrategy handle on one engine, an
   LruCache, an LfuCache, an ArcCache or a KLruKCache; the engine the handle
   points to has a positive capacity and takes the calls, the three others
   are constructed with capacity 0 and take none *)

FormsEngines == {"lru", "lfu", "arc", "lruk"}

FormsKeys == 0..FormsMaxKey

InitForms ==
    /\ InitThreadsIdle
    /\ InitBudgetIdle
    /\ InitHashIdle
    /\ \E engine \in FormsEngines :
          /\ \E capacity \in IF engine = "lru" THEN 1..LruMaxCapacity ELSE {0} :
                /\ lru = LruCache(capacity)
                /\ lruRef = <<capacity, <<>>>>
          /\ \E cfg \in LfuConfigs :
                /\ (cfg[1] > 0) = (engine = "lfu")
                /\ lfu = LfuCache(cfg[1], cfg[2])
          /\ \E capacity \in IF engine = "arc" THEN 1..ArcMaxCapacity ELSE {0} :
                arc = ArcCache(capacity, DefaultTransformThreshold)
          /\ \E cfg \in LrukConfigs :
                /\ IF engine = "lruk" THEN cfg[1] > 0 ELSE cfg = <<0, 0, 1>>
                /\ lruk = KLruKCache(cfg[1], cfg[2], cfg[3])
    /\ lruRet = NoCall
    /\ lruRefRet = NoCall
    /\ lfuRet = NoCall
    /\ lfuLastPut = [k \in LfuKeys |-> DefaultValue]
    /\ lfuSince = <<>>
    /\ arcRet = NoCall
    /\ arcLastPut = [k \in FormsKeys |-> DefaultValue]
    /\ lrukRet = NoCall
    /\ lrukTouched = [k \in LrukKeys |-> 0]
    /\ lrukLastPut = [k \in LrukKeys |-> DefaultValue]
    /\ lrukLost = FALSE

FormsLruPut == lru.capacity_ > 0 /\ LruPut

FormsLruGet == lru.capacity_ > 0 /\ LruGet

FormsLfuPut == lfu.capacity_ > 0 /\ LfuPutIn(FormsKeys, "none")

FormsLfuGet == lfu.capacity_ > 0 /\ LfuGetIn(FormsKeys, "none")

FormsArcPut ==
    arc.capacity_ > 0 /\ ArcPutIn(FormsKeys, Values, ArcMaxCount, ArcMaxUnindexed)

FormsArcGet ==
    arc.capacity_ > 0 /\ ArcGetIn(FormsKeys, ArcMaxCount, ArcMaxUnindexed)

FormsLrukPut == lruk.base.capacity_ > 0 /\ LrukPut

FormsLrukGet == lruk.base.capacity_ > 0 /\ LrukGet

FormsLrukGetOut == lruk.base.capacity_ > 0 /\ LrukGetOut

NextForms ==
    \/ FormsLruPut \/ FormsLruGet
    \/ FormsLfuPut \/ FormsLfuGet
    \/ FormsArcPut \/ FormsArcGet
    \/ FormsLrukPut \/ FormsLrukGet \/ FormsLrukGetOut

SpecForms == InitForms /\ [][NextForms]_vars

-----------------------------------------------------------------------------
(* Claims about the abstract interface *)

\* what the caller's variable may hold before get(k, out)
FormsOuts == Values \cup {DefaultValue}

FormsAgree(byValue, byOut) ==
    /\ byValue.c = byOut.c
    /\ byOut.hit => byValue.value = byOut.value
    /\ (byValue.value = DefaultValue) <=> ~byOut.hit

\* C18: the two get forms agree.  From every reachable state of every engine
\* behind the interface, get(k) and get(k, out) leave the same state, get(k)
\* returns the value get(k, out) copies out on a hit, and get(k) returns
\* the default value exactly when get(k, out) returns false.
C18_GetFormsAgree ==
    \A key \in LruKeys \cup FormsKeys \cup LrukKeys, out \in FormsOuts :
        /\ FormsAgree(LruGetValueOp(lru, key), LruGetOp(lru, key, out))
        /\ \A v \in LfuGetValueOp(lfu, key) :
              \E r \in LfuGetOp(lfu, key, out) : FormsAgree(v, r)
        /\ \A r \in LfuGetOp(lfu, key, out) :
              \E v \in LfuGetValueOp(lfu, key) : FormsAgree(v, r)
        /\ FormsAgree(ArcGetValueOp(arc, key), ArcGetOp(arc, key, out))
        /\ FormsAgree(LrukGetOp(lruk, key), LrukGetOutOp(lruk, key, out))

-----------------------------------------------------------------------------
(* KHashLruCaches and HashLfuCache: the key space is split over sliceNum_
   independent engines; shard i of the code is element i + 1 of the
   sequence *)

\* std::hash<Key> of a non-negative int key, converted to size_t
Hash(key) == key

\* mutant of the shard capacity: the quotient rounded down, plus one
SliceSizeAbove(capacity, sliceNum) == capacity \div sliceNum + 1

\* std::ceil(capacity / static_cast<double>(sliceNum_)) converted to size_t
SliceSize(capacity, sliceNum) ==
    IF capacity % sliceNum = 0
    THEN capacity \div sliceNum
    ELSE capacity \div sliceNum + 1

\* KHashLruCaches(size_t capacity, int sliceNum) with sliceNum > 0
KHashLruCaches(capacity, sliceNum) ==
    [capacity_ |-> capacity,
     sliceNum_ |-> sliceNum,
     lruSliceCaches_ |-> [i \in 1..sliceNum |-> LruCache(SliceSize(capacity, sliceNum))]]

\* Hash(key) % sliceNum_
HashSliceIndex(c, key) == Hash(key) % c.sliceNum_

\* mutant of put: the entry is put into every shard
HashLruPutAll(c, key, value) ==
    [c EXCEPT !.lruSliceCaches_ =
        [i \in 1..c.sliceNum_ |-> LruPutOp(c.lruSliceCaches_[i], key, value)]]

HashLruPutOp(c, key, value) ==
    [c EXCEPT !.lruSliceCaches_[HashSliceIndex(c, key) + 1] = LruPutOp(@, key, value)]

\* bool get(Key, Value&)
HashLruGetOp(c, key, out) ==
    LET sliceIndex == HashSliceIndex(c, key)
        r == LruGetOp(c.lruSliceCaches_[sliceIndex + 1], key, out)
    IN  [c |-> [c EXCEPT !.lruSliceCaches_[sliceIndex + 1] = r.c],
         hit |-> r.hit, value |-> r.value]

\* HashLfuCache(size_t capacity, int sliceNum, int maxAverageNum) with sliceNum > 0
HashLfuCache(capacity, sliceNum, maxAverageNum) ==
    [capacity_ |-> capacity,
     sliceNum_ |-> sliceNum,
     lfuSliceCaches_ |->
        [i \in 1..sliceNum |-> LfuCache(SliceSize(capacity, sliceNum), maxAverageNum)]]

\* the outcomes of put
HashLfuPutOp(c, key, value) ==
    LET sliceIndex == HashSliceIndex(c, key)
    IN  {[c EXCEPT !.lfuSliceCaches_[sliceIndex + 1] = d] :
            d \in LfuPutOp(c.lfuSliceCaches_[sliceIndex + 1], key, value)}

\* the outcomes of bool get(Key, Value&)
HashLfuGetOp(c, key, out) ==
    LET sliceIndex == HashSliceIndex(c, key)
    IN  {[c |-> [c EXCEPT !.lfuSliceCaches_[sliceIndex + 1] = r.c],
          hit |-> r.hit, value |-> r.value] :
            r \in LfuGetOp(c.lfuSliceCaches_[sliceIndex + 1], key, out)}

-----------------------------------------------------------------------------
(* Specification SpecHash: a KHashLruCaches and a HashLfuCache; in every
   run one of the two takes the calls, the one that took the first *)

HashKeys == 0..HashMaxKey

HashLfuValues == {1}

InitHash ==
    /\ InitThreadsIdle
    /\ InitLruIdle
    /\ InitLfuIdle
    /\ InitArcIdle
    /\ InitBudgetIdle
    /\ InitLrukIdle
    /\ \E capacity \in 0..HashMaxCapacity, sliceNum \in 1..HashMaxSlices :
          /\ hashLru = KHashLruCaches(capacity, sliceNum)
          /\ hashLruSeen = [i \in 1..sliceNum |-> {}]
    /\ \E capacity \in 0..HashLfuMaxCapacity, sliceNum \in 1..HashMaxSlices,
          maxAverageNum \in LfuThresholds :
          hashLfu = HashLfuCache(capacity, sliceNum, maxAverageNum)
    /\ hashLruRet = NoCall
    /\ hashLfuRet = NoCall

HashLruPut ==
    \E key \in HashKeys, value \in Values :
        /\ hashLfuRet = NoCall
        /\ hashLru' = HashLruPutOp(hashLru, key, value)
        /\ hashLruRet' = [op |-> "put", key |-> key, hit |-> FALSE, value |-> value]
        /\ hashLruSeen' = [hashLruSeen EXCEPT ![HashSliceIndex(hashLru, key) + 1] = @ \cup {key}]
        /\ UNCHANGED <<hashLfu, hashLfuRet, notHashVars>>

HashLruGet ==
    \E key \in HashKeys :
        LET r == HashLruGetOp(hashLru, key, DefaultValue)
        IN  /\ hashLfuRet = NoCall
            /\ hashLru' = r.c
            /\ hashLruRet' = [op |-> "get", key |-> key, hit |-> r.hit, value |-> r.value]
            /\ UNCHANGED <<hashLruSeen, hashLfu, hashLfuRet, notHashVars>>

\* the shard of the key takes another call
HashLfuCallsLeft(c, key) == LfuCallsLeft(c.lfuSliceCaches_[HashSliceIndex(c, key) + 1])

HashLfuPut ==
    \E key \in HashKeys, value \in HashLfuValues :
        LET shard == hashLfu.lfuSliceCaches_[HashSliceIndex(hashLfu, key) + 1]
        IN  /\ hashLruRet = NoCall
            /\ HashLfuCallsLeft(hashLfu, key)
            /\ key \in DOMAIN shard.nodeMap_ \/ LfuFreeNames(shard, key) # {}
            /\ hashLfu' \in HashLfuPutOp(hashLfu, key, value)
            /\ hashLfuRet' = [op |-> "put", key |-> key, hit |-> FALSE, value |-> value]
            /\ UNCHANGED <<hashLru, hashLruRet, hashLruSeen, notHashVars>>

HashLfuGet ==
    \E key \in HashKeys :
        /\ hashLruRet = NoCall
        /\ HashLfuCallsLeft(hashLfu, key)
        /\ \E r \in HashLfuGetOp(hashLfu, key, DefaultValue) :
              /\ hashLfu' = r.c
              /\ hashLfuRet' = [op |-> "get", key |-> key, hit |-> r.hit, value |-> r.value]
        /\ UNCHANGED <<hashLru, hashLruRet, hashLruSeen, notHashVars>>

NextHash == HashLruPut \/ HashLruGet \/ HashLfuPut \/ HashLfuGet

SpecHash == InitHash /\ [][NextHash]_vars

-----------------------------------------------------------------------------
(* Claims about the sharded wrappers *)

\* C19: shard disjointness.  A put / get on key k changes no shard other
\* than shard hash(k) mod N, in the KHashLruCaches and in the HashLfuCache,
\* and every key a shard holds is a key routed to that shard.
C19_ShardDisjointness ==
    [][/\ \A i \in 1..hashLru.sliceNum_ :
            /\ i # (Hash(hashLruRet'.key) % hashLru.sliceNum_) + 1
                  => hashLru'.lruSliceCaches_[i] = hashLru.lruSliceCaches_[i]
            /\ \A key \in hashLru'.lruSliceCaches_[i].nodeMap_ :
                  (Hash(key) % hashLru.sliceNum_) + 1 = i
       /\ \A i \in 1..hashLfu.sliceNum_ :
            /\ i # (Hash(hashLfuRet'.key) % hashLfu.sliceNum_) + 1
                  => hashLfu'.lfuSliceCaches_[i] = hashLfu.lfuSliceCaches_[i]
            /\ \A key \in DOMAIN hashLfu'.lfuSliceCaches_[i].nodeMap_ :
                  (Hash(key) % hashLfu.sliceNum_) + 1 = i]_vars

\* both shards of a two-shard wrapper hold entries, the last call was a put
\* into the second shard
C19_Witness ==
    /\ hashLru.sliceNum_ = 2
    /\ hashLruRet.op = "put"
    /\ hashLruRet.key = 1
    /\ \A i \in 1..2 : hashLru.lruSliceCaches_[i].nodeMap_ # {}

\* the least n with n * d >= t
CeilOf(t, d) == CHOOSE n \in 0..t : n * d >= t /\ \A m \in 0..(n - 1) : m * d < t

HashLruLive(i) == Cardinality(hashLru.lruSliceCaches_[i].nodeMap_)

RECURSIVE HashLruLiveUpTo(_)
HashLruLiveUpTo(i) == IF i = 0 THEN 0 ELSE HashLruLive(i) + HashLruLiveUpTo(i - 1)

\* C20: shard capacity bound.  With total capacity T and N shards every
\* shard has capacity ceil(T/N) and holds at most ceil(T/N) entries, the
\* shards together hold at most T + N - 1, and once every shard has been
\* handed at least ceil(T/N) distinct keys every shard holds exactly
\* ceil(T/N) entries.
C20_ShardCapacityBound ==
    LET T == hashLru.capacity_
        N == hashLru.sliceNum_
        shards == 1..N
    IN  /\ Len(hashLru.lruSliceCaches_) = N
        /\ \A i \in shards :
              /\ hashLru.lruSliceCaches_[i].capacity_ = CeilOf(T, N)
              /\ HashLruLive(i) <= CeilOf(T, N)
        /\ HashLruLiveUpTo(N) <= T + N - 1
        /\ (\A i \in shards : Cardinality(hashLruSeen[i]) >= CeilOf(T, N))
              => \A i \in shards : HashLruLive(i) = CeilOf(T, N)

\* total capacity 3 over 2 shards: both shards are full and together hold
\* 4 = T + N - 1 entries
C20_Witness ==
    /\ hashLru.capacity_ = 3
    /\ hashLru.sliceNum_ = 2
    /\ \A i \in 1..2 : Cardinality(hashLruSeen[i]) >= 2
    /\ HashLruLiveUpTo(2) = 4

-----------------------------------------------------------------------------
(* Claims about LruCache::remove *)

\* the sequence without its i-th element
WithoutIndex(s, i) ==
    [j \in 1..(Len(s) - 1) |-> IF j < i THEN s[j] ELSE s[j + 1]]

\* C23: LruCache remove.  remove(k) of a live key takes k out of the index
\* and its node out of the recency list: the size drops by one, a following
\* get(k) returns false, and the other entries keep their values and their
\* relative order; remove(k) of an absent key changes nothing.
C23_LruRemove ==
    [][lruRet'.op = "remove" =>
         LET k == lruRet'.key
         IN  IF k \in lru.nodeMap_
             THEN \E i \in 1..Len(lru.list) :
                     /\ lru.list[i].key = k
                     /\ lru'.list = WithoutIndex(lru.list, i)
                     /\ lru'.nodeMap_ = lru.nodeMap_ \ {k}
                     /\ Cardinality(lru'.nodeMap_) = Cardinality(lru.nodeMap_) - 1
                     /\ lru'.capacity_ = lru.capacity_
                     /\ \A out \in Values \cup {DefaultValue} :
                           LET r == LruGetOp(lru', k, out)
                           IN  ~r.hit /\ r.value = out /\ r.c = lru'
             ELSE lru' = lru]_vars

\* a remove left one entry in a cache of capacity 2, and the key removed is
\* not the least key
C23_Witness ==
    /\ lruRet.op = "remove"
    /\ lruRet.key = 1
    /\ lru.capacity_ = 2
    /\ Len(lru.list) = 1
    /\ lru.nodeMap_ = {2}

-----------------------------------------------------------------------------
(* Algebraic laws of LruCache and LfuCache *)

\* the LfuCache can take put(key, .): the key is linked or a node is free
LfuCanPut(c, key) == key \in DOMAIN c.nodeMap_ \/ LfuFreeNames(c, key) # {}

\* C24: idempotence.  From every reachable state of an LruCache or LfuCache
\* of capacity >= 1, put(k, v); put(k, v) and put(k, v); get(k) end in the
\* same engine state (keys, values, order or frequencies, minFreq_, totals).
C24_PutPutIsPutGet ==
    \A key \in FormsKeys, value \in Values, out \in FormsOuts :
        /\ lru.capacity_ >= 1 =>
              LET once == LruPutOp(lru, key, value)
              IN  LruPutOp(once, key, value) = LruGetOp(once, key, out).c
        /\ (lfu.capacity_ >= 1 /\ LfuCanPut(lfu, key)) =>
              LET once == LfuPutOp(lfu, key, value)
              IN  UNION {LfuPutOp(d, key, value) : d \in once}
                     = UNION {{r.c : r \in LfuGetOp(d, key, out)} : d \in once}

\* the LfuCache took put(k, v) twice in a row on a key that was not live:
\* its node has frequency 2 and the cache holds a second key
C24_Witness ==
    /\ lfu.capacity_ = 2
    /\ lfuRet.op = "put"
    /\ lfuRet.key \in DOMAIN lfu.nodeMap_
    /\ lfu.nodes[lfu.nodeMap_[lfuRet.key]].freq = 2
    /\ lfu.nodes[lfu.nodeMap_[lfuRet.key]].value = lfuRet.value
    /\ Cardinality(DOMAIN lfu.nodeMap_) = 2

-----------------------------------------------------------------------------
(* Claims about the aging of LfuCache *)

LfuFreqOf(c, key) == c.nodes[c.nodeMap_[key]].freq

LfuValueOf(c, key) == c.nodes[c.nodeMap_[key]].value

RECURSIVE LfuFreqSum(_, _)
LfuFreqSum(c, keys) ==
    IF keys = {} THEN 0
    ELSE LET key == CHOOSE k \in keys : TRUE
         IN  LfuFreqOf(c, key) + LfuFreqSum(c, keys \ {key})

\* C25: the aging rule.  A hit or an insertion increments curTotalNum_ and
\* sets curAverageNum_ to curTotalNum_ / size (integer division); the aging
\* pass runs exactly when that average exceeds maxAverageNum_ and takes every
\* live node from freq to max(1, freq - maxAverageNum_ / 2); the live keys
\* and their values are not changed by the pass, and after it minFreq_ is
\* the least frequency of a live node.
C25_LfuAgingRule ==
    [][LET key == lfuRet'.key
           live == DOMAIN lfu.nodeMap_
           after == DOMAIN lfu'.nodeMap_
           hit == key \in live
           insert == key \notin live /\ lfuRet'.op = "put" /\ lfu.capacity_ >= 1
           evicted == live \ after
           total == lfu.curTotalNum_ - LfuFreqSum(lfu, evicted) + 1
           average == CDiv(total, Cardinality(after))
           half == CDiv(lfu.maxAverageNum_, 2)
           counted(j) == IF j # key THEN LfuFreqOf(lfu, j)
                         ELSE IF hit THEN LfuFreqOf(lfu, j) + 1 ELSE 1
           kept(j) == IF j = key /\ lfuRet'.op = "put" THEN lfuRet'.value
                      ELSE LfuValueOf(lfu, j)
       IN  (hit \/ insert) =>
              /\ after = (live \ evicted) \cup {key}
              /\ lfu'.curTotalNum_ = total
              /\ lfu'.curAverageNum_ = average
              /\ \A j \in after :
                    /\ LfuValueOf(lfu', j) = kept(j)
                    /\ LfuFreqOf(lfu', j) =
                          IF average > lfu.maxAverageNum_
                          THEN Max(1, counted(j) - half) ELSE counted(j)
              /\ average > lfu.maxAverageNum_ =>
                    /\ \E j \in after : lfu'.minFreq_ = LfuFreqOf(lfu', j)
                    /\ \A j \in after : lfu'.minFreq_ <= LfuFreqOf(lfu', j)]_vars

-----------------------------------------------------------------------------
(* Claims about the routing of ArcCache *)

\* C26: ARC put routing.  put(k, v) of a key in neither ghost list inserts
\* or updates k in T1 and, when T1 admits it, inserts or updates k with the
\* same value in T2; put(k, v) of a key found in a ghost list inserts or
\* updates k in T1 only: the entries T2 holds afterwards are entries it held
\* before, with their values and frequencies.
C26_ArcPutRouting ==
    [][arcRet'.op = "put" =>
        LET k == arcRet'.key
            v == arcRet'.value
            inGhost == k \in arc.lruPart_.ghostCache_ \cup arc.lfuPart_.ghostCache_
            inT1 == /\ k \in arc'.lruPart_.mainCache_
                    /\ NodeOf(arc'.lruPart_.mainList, k).value = v
            inT2 == /\ k \in DOMAIN arc'.lfuPart_.mainCache_
                    /\ arc'.lfuPart_.mainCache_[k].value = v
        IN  IF ~inGhost
            THEN IF arc.lruPart_.capacity_ > 0
                 THEN inT1 /\ inT2
                 ELSE arc'.lfuPart_ = arc.lfuPart_
            ELSE /\ inT1
                 /\ \A j \in DOMAIN arc'.lfuPart_.mainCache_ :
                       /\ j \in DOMAIN arc.lfuPart_.mainCache_
                       /\ arc'.lfuPart_.mainCache_[j] = arc.lfuPart_.mainCache_[j]]_vars

\* C27: ARC promotion.  A get(k) that hits T1 increments the hit counter of
\* the T1 node by one and moves k to the MRU end of T1; promotion is
\* signalled exactly when the incremented counter is >= the threshold, and
\* then k is put into T2 with its T1 value while it stays live in T1; T2 is
\* not looked up (no T2 access is counted for k) when T1 hits.
C27_ArcPromotion ==
    [][(arcRet'.op = "get" /\ arcRet'.key \in arc'.lruPart_.mainCache_) =>
        LET k == arcRet'.key
            before == NodeOf(arc.lruPart_.mainList, k)
            after == NodeOf(arc'.lruPart_.mainList, k)
            t2 == arc.lfuPart_.mainCache_
            t2After == arc'.lfuPart_.mainCache_
        IN  /\ k \in arc.lruPart_.mainCache_
            /\ arcRet'.hit /\ arcRet'.value = before.value
            /\ after = [before EXCEPT !.accessCount_ = @ + 1]
            /\ Head(arc'.lruPart_.mainList) = after
            /\ IF after.accessCount_ >= arc.transformThreshold_
               THEN /\ k \in DOMAIN t2After
                    /\ t2After[k].value = before.value
                    /\ t2After[k].accessCount_ =
                          IF k \in DOMAIN t2 THEN t2[k].accessCount_ + 1 ELSE 1
               ELSE k \in DOMAIN t2After =>
                       k \in DOMAIN t2 /\ t2After[k] = t2[k]]_vars

\* C28: ARC ghost entries never return values.  A get(k, out) of a key that
\* is in a ghost list and live on neither side returns false and leaves out
\* as it was; in every state reached, checkGhost of a key in the ghost list
\* of a side returns true and leaves the key out of that list, and
\* checkGhost of a key absent from the list returns false and changes nothing.
C28_ArcGhostsReturnNothing ==
    [][/\ (/\ arcRet'.op = "get"
           /\ arcRet'.key \in ArcGhostKeys(arc.lruPart_) \cup ArcGhostKeys(arc.lfuPart_)
           /\ arcRet'.key \notin ArcLiveKeys(arc))
          => ~arcRet'.hit /\ arcRet'.value = DefaultValue
       /\ \A k \in DOMAIN arcLastPut :
             LET inLru == ArcLruCheckGhost(arc'.lruPart_, k)
                 inLfu == ArcLfuCheckGhost(arc'.lfuPart_, k)
             IN  /\ IF k \in ArcGhostKeys(arc'.lruPart_)
                    THEN inLru.found /\ k \notin ArcGhostKeys(inLru.c)
                    ELSE ~inLru.found /\ inLru.c = arc'.lruPart_
                 /\ IF k \in ArcGhostKeys(arc'.lfuPart_)
                    THEN inLfu.found /\ k \notin ArcGhostKeys(inLfu.c)
                    ELSE ~inLfu.found /\ inLfu.c = arc'.lfuPart_]_vars

\* C29: ARC per-side budget.  After every put / get on an ArcCache built
\* with capacity C, the live entries plus the ghost entries of each side
\* (T1 with B1, T2 with B2) number at most C.
C29_ArcSideBudget ==
    /\ Cardinality(arc.lruPart_.mainCache_) + Cardinality(arc.lruPart_.ghostCache_)
          <= arc.capacity_
    /\ Cardinality(DOMAIN arc.lfuPart_.mainCache_) + Cardinality(arc.lfuPart_.ghostCache_)
          <= arc.capacity_

-----------------------------------------------------------------------------
(* Specification SpecLocks: threads calling the public operations of every
   engine and wrapper at once.  An operation is the sequence of its
   lock_guard acquisitions, its accesses of engine state and its releases,
   in the order of the code.  What an access reads and writes is recorded
   ("capacity_": the capacity, "index": the maps and the lists); the data is
   not, so a branch on data is a choice between the sequences the branches
   give *)

Threads == 1..ThreadCount

\* the engines of the LRU-K wrapper: its LruCache base and its history
LrukEngines == {"main", "historyList_"}

LruSliceCaches == <<"lruSliceCaches_[0]", "lruSliceCaches_[1]">>

LfuSliceCaches == <<"lfuSliceCaches_[0]", "lfuSliceCaches_[1]">>

\* every object with a mutex_ of its own
MutexEngines ==
    {"lru", "lfu", "lruPart_", "lfuPart_"} \cup LrukEngines
        \cup {LruSliceCaches[i] : i \in DOMAIN LruSliceCaches}
        \cup {LfuSliceCaches[i] : i \in DOMAIN LfuSliceCaches}

\* std::lock_guard<std::mutex> lock(mutex_): constructor and destructor
Lock(e) == [kind |-> "lock", engine |-> e, reads |-> {}, writes |-> {}]

Unlock(e) == [kind |-> "unlock", engine |-> e, reads |-> {}, writes |-> {}]

\* statements of a method that touch the engine's state; step names them
Access(e, step, reads, writes) ==
    [kind |-> step, engine |-> e, reads |-> reads, writes |-> writes]

\* a block under a lock_guard: the find in the index, then the rest, which
\* acts on the iterator found
Guarded(e, reads, writes) ==
    <<Lock(e), Access(e, "find", {"index"}, {}), Access(e, "apply", reads, writes),
      Unlock(e)>>

\* LruCache::put: capacity_ is read before the lock is taken
LruPutCode(e) ==
    <<Access(e, "capacity_", {"capacity_"}, {})>> \o Guarded(e, {"capacity_", "index"}, {"index"})

LruGetCode(e) == Guarded(e, {"index"}, {"index"})

\* a remove that would take no lock
LruRemoveCodeUnlocked(e) ==
    <<Access(e, "find", {"index"}, {}), Access(e, "apply", {"index"}, {"index"})>>

LruRemoveCode(e) == Guarded(e, {"index"}, {"index"})

\* LfuCache::put: capacity_ is read before the lock is taken
LfuPutCode(e) ==
    <<Access(e, "capacity_", {"capacity_"}, {})>> \o Guarded(e, {"capacity_", "index"}, {"index"})

LfuGetCode(e) == Guarded(e, {"index"}, {"index"})

\* LfuCache::purge clears both maps and takes no lock
LfuPurgeCode(e) == <<Access(e, "purge", {}, {"index"})>>

\* put of ArcLruCache / ArcLfuCache: capacity_ is read before the lock is
\* taken; returns false there when it is 0 (stored = FALSE)
ArcPartPutCode(e, stored) ==
    <<Access(e, "capacity_", {"capacity_"}, {})>>
        \o (IF stored THEN Guarded(e, {"capacity_", "index"}, {"index"}) ELSE <<>>)

ArcPartGetCode(e) == Guarded(e, {"index"}, {"index"})

\* checkGhost of ArcLruCache / ArcLfuCache takes no lock
ArcCheckGhostCode(e, found) ==
    <<Access(e, "checkGhost", {"index"}, IF found THEN {"index"} ELSE {})>>

\* increaseCapacity takes no lock
ArcIncreaseCapacityCode(e) ==
    <<Access(e, "increaseCapacity", {"capacity_"}, {"capacity_"})>>

\* decreaseCapacity takes no lock; done: capacity_ was > 0, evicts: the
\* side was full
ArcDecreaseCapacityCode(e, done, evicts) ==
    <<Access(e, "decreaseCapacity",
             IF done THEN {"capacity_", "index"} ELSE {"capacity_"},
             IF ~done THEN {}
             ELSE IF evicts THEN {"capacity_", "index"} ELSE {"capacity_"})>>

\* ArcCache::checkGhostCaches, with what it returns
ArcCheckGhostCachesCodes ==
    {[inGhost |-> TRUE,
      code |-> ArcCheckGhostCode("lruPart_", TRUE)
                  \o ArcDecreaseCapacityCode("lfuPart_", TRUE, evicts)
                  \o ArcIncreaseCapacityCode("lruPart_")] : evicts \in BOOLEAN}
    \cup {[inGhost |-> TRUE,
           code |-> ArcCheckGhostCode("lruPart_", TRUE)
                       \o ArcDecreaseCapacityCode("lfuPart_", FALSE, FALSE)]}
    \cup {[inGhost |-> TRUE,
           code |-> ArcCheckGhostCode("lruPart_", FALSE)
                       \o ArcCheckGhostCode("lfuPart_", TRUE)
                       \o ArcDecreaseCapacityCode("lruPart_", TRUE, evicts)
                       \o ArcIncreaseCapacityCode("lfuPart_")] : evicts \in BOOLEAN}
    \cup {[inGhost |-> TRUE,
           code |-> ArcCheckGhostCode("lruPart_", FALSE)
                       \o ArcCheckGhostCode("lfuPart_", TRUE)
                       \o ArcDecreaseCapacityCode("lruPart_", FALSE, FALSE)]}
    \cup {[inGhost |-> FALSE,
           code |-> ArcCheckGhostCode("lruPart_", FALSE)
                       \o ArcCheckGhostCode("lfuPart_", FALSE)]}

\* ArcCache::put
ArcPutCodes ==
    UNION {{ghost.code \o rest :
               rest \in IF ghost.inGhost
                        THEN {ArcPartPutCode("lruPart_", stored) : stored \in BOOLEAN}
                        ELSE {ArcPartPutCode("lruPart_", FALSE)}
                                \cup {ArcPartPutCode("lruPart_", TRUE)
                                         \o ArcPartPutCode("lfuPart_", stored) :
                                             stored \in BOOLEAN}} :
           ghost \in ArcCheckGhostCachesCodes}

\* ArcCache::get(Key, Value&)
ArcGetCodes ==
    UNION {{ghost.code \o rest :
               rest \in {ArcPartGetCode("lruPart_"),
                         ArcPartGetCode("lruPart_") \o ArcPartGetCode("lfuPart_")}
                            \cup {ArcPartGetCode("lruPart_")
                                     \o ArcPartPutCode("lfuPart_", stored) :
                                         stored \in BOOLEAN}} :
           ghost \in ArcCheckGhostCachesCodes}

\* the start of KLruKCache::get and of a KLruKCache::put of a key not in main
LrukHistoryCode ==
    LruGetCode("historyList_") \o LruPutCode("historyList_")

\* a promotion that would keep the history locked while it puts into main
LrukPromoteCodeNested ==
    <<Lock("historyList_"), Access("historyList_", "find", {"index"}, {}),
      Access("historyList_", "apply", {"index"}, {"index"})>>
        \o LruPutCode("main") \o <<Unlock("historyList_")>>

\* the promotion of KLruKCache::get and KLruKCache::put
LrukPromoteCode == LruRemoveCode("historyList_") \o LruPutCode("main")

\* KLruKCache::get(Key)
LrukGetCodes ==
    {LruGetCode("main") \o LrukHistoryCode,
     LruGetCode("main") \o LrukHistoryCode \o LrukPromoteCode}

\* KLruKCache::put
LrukPutCodes ==
    {LruGetCode("main") \o LruPutCode("main"),
     LruGetCode("main") \o LrukHistoryCode,
     LruGetCode("main") \o LrukHistoryCode \o LrukPromoteCode}

RECURSIVE HashLfuPurgeCode(_)
\* HashLfuCache::purge, from slice i on
HashLfuPurgeCode(i) ==
    IF i > Len(LfuSliceCaches) THEN <<>>
    ELSE LfuPurgeCode(LfuSliceCaches[i]) \o HashLfuPurgeCode(i + 1)

\* the public operations a thread can call, each with the sequences it can run
ThreadCalls ==
    {[name |-> "LruCache::put", code |-> LruPutCode("lru")],
     [name |-> "LruCache::get", code |-> LruGetCode("lru")],
     [name |-> "LruCache::remove", code |-> LruRemoveCode("lru")],
     [name |-> "LfuCache::put", code |-> LfuPutCode("lfu")],
     [name |-> "LfuCache::get", code |-> LfuGetCode("lfu")],
     [name |-> "LfuCache::purge", code |-> LfuPurgeCode("lfu")],
     [name |-> "HashLfuCache::purge", code |-> HashLfuPurgeCode(1)]}
    \cup {[name |-> "ArcCache::put", code |-> code] : code \in ArcPutCodes}
    \cup {[name |-> "ArcCache::get", code |-> code] : code \in ArcGetCodes}
    \cup {[name |-> "KLruKCache::get", code |-> code] : code \in LrukGetCodes}
    \cup {[name |-> "KLruKCache::put", code |-> code] : code \in LrukPutCodes}
    \cup {[name |-> "KHashLruCaches::put", code |-> LruPutCode(LruSliceCaches[i])] :
             i \in DOMAIN LruSliceCaches}
    \cup {[name |-> "KHashLruCaches::get", code |-> LruGetCode(LruSliceCaches[i])] :
             i \in DOMAIN LruSliceCaches}
    \cup {[name |-> "HashLfuCache::put", code |-> LfuPutCode(LfuSliceCaches[i])] :
             i \in DOMAIN LfuSliceCaches}
    \cup {[name |-> "HashLfuCache::get", code |-> LfuGetCode(LfuSliceCaches[i])] :
             i \in DOMAIN LfuSliceCaches}

\* what a step of SpecLocks leaves alone besides the threads' positions
notThreadVars == <<lruVars, lfuVars, arcVars, budgetVars, lrukVars, hashVars, thDataVars>>

InitLocks ==
    /\ InitWrappersIdle
    /\ InitLruIdle
    /\ InitLfuIdle
    /\ InitArcIdle
    /\ InitBudgetIdle
    /\ InitThreadDataIdle
    /\ thCall = [t \in Threads |-> "idle"]
    /\ thTodo = [t \in Threads |-> <<>>]
    /\ mutexOwner = [e \in MutexEngines |-> NoThread]

\* thread t calls a public operation
ThreadInvoke(t) ==
    /\ thCall[t] = "idle"
    /\ \E call \in ThreadCalls :
          /\ thCall' = [thCall EXCEPT ![t] = call.name]
          /\ thTodo' = [thTodo EXCEPT ![t] = call.code]
    /\ UNCHANGED <<mutexOwner, notThreadVars>>

\* the lock_guard constructor: blocks until the mutex is free
ThreadLock(t) ==
    /\ thTodo[t] # <<>>
    /\ Head(thTodo[t]).kind = "lock"
    /\ mutexOwner[Head(thTodo[t]).engine] = NoThread
    /\ mutexOwner' = [mutexOwner EXCEPT ![Head(thTodo[t]).engine] = t]
    /\ thTodo' = [thTodo EXCEPT ![t] = Tail(@)]
    /\ UNCHANGED <<thCall, notThreadVars>>

ThreadAccess(t) ==
    /\ thTodo[t] # <<>>
    /\ Head(thTodo[t]).kind \notin {"lock", "unlock"}
    /\ thTodo' = [thTodo EXCEPT ![t] = Tail(@)]
    /\ UNCHANGED <<thCall, mutexOwner, notThreadVars>>

\* the lock_guard destructor
ThreadUnlock(t) ==
    /\ thTodo[t] # <<>>
    /\ Head(thTodo[t]).kind = "unlock"
    /\ mutexOwner' = [mutexOwner EXCEPT ![Head(thTodo[t]).engine] = NoThread]
    /\ thTodo' = [thTodo EXCEPT ![t] = Tail(@)]
    /\ UNCHANGED <<thCall, notThreadVars>>

\* the operation returns to its caller
ThreadReturn(t) ==
    /\ thCall[t] # "idle"
    /\ thTodo[t] = <<>>
    /\ thCall' = [thCall EXCEPT ![t] = "idle"]
    /\ UNCHANGED <<thTodo, mutexOwner, notThreadVars>>

NextLocks ==
    \E t \in Threads :
        \/ ThreadInvoke(t)
        \/ ThreadLock(t)
        \/ ThreadAccess(t)
        \/ ThreadUnlock(t)
        \/ ThreadReturn(t)

SpecLocks == InitLocks /\ [][NextLocks]_vars

\* thread t is at statements that touch an engine's state
ThreadAtAccess(t) == thTodo[t] # <<>> /\ Head(thTodo[t]).kind \notin {"lock", "unlock"}

\* two accesses of one engine, one of them writing what the other touches
Conflicting(a, b) ==
    /\ a.engine = b.engine
    /\ \/ a.writes \cap (b.reads \cup b.writes) # {}
       \/ b.writes \cap (a.reads \cup a.writes) # {}

\* C21: per-engine mutual exclusion.  In no reachable state are two threads
\* at accesses of the same engine's index, lists or capacity of which one
\* writes what the other reads or writes.
C21_PerEngineMutualExclusion ==
    \A t, u \in Threads :
        (t # u /\ ThreadAtAccess(t) /\ ThreadAtAccess(u))
            => ~Conflicting(Head(thTodo[t]), Head(thTodo[u]))

\* SpecLocks under fair scheduling: a thread that can take a step of its
\* operation eventually takes it, and a thread at a lock_guard whose mutex
\* is free again and again eventually gets the mutex
SpecLocksFair ==
    /\ SpecLocks
    /\ \A t \in Threads :
          /\ WF_vars(ThreadAccess(t) \/ ThreadUnlock(t) \/ ThreadReturn(t))
          /\ SF_vars(ThreadLock(t))

\* thread t is blocked in a lock_guard constructor
ThreadWaits(t) ==
    /\ thTodo[t] # <<>>
    /\ Head(thTodo[t]).kind = "lock"
    /\ mutexOwner[Head(thTodo[t]).engine] # NoThread

\* the engines whose mutex thread t holds
ThreadHolds(t) == {e \in MutexEngines : mutexOwner[e] = t}

-----------------------------------------------------------------------------
(* Specification SpecThreads: threads calling put / get / remove on one
   LruCache, or put / get on one LfuCache, at once.  Each thread runs the
   instructions of its operation on the engine they share.  The reference
   LRU takes each operation when its thread takes the lock *)

ThreadKeys == 0..ThreadMaxKey

\* what an operation that has not got to its return holds
NoReturn == [done |-> FALSE, hit |-> FALSE, value |-> DefaultValue]

NoArgs == [key |-> DefaultKey, value |-> DefaultValue]

\* the operations on the engine the threads share
DataCalls ==
    IF thEngine = "lru"
    THEN {[name |-> "LruCache::put", code |-> LruPutCode("lru")],
          [name |-> "LruCache::get", code |-> LruGetCode("lru")],
          [name |-> "LruCache::remove", code |-> LruRemoveCode("lru")]}
    ELSE {[name |-> "LfuCache::put", code |-> LfuPutCode("lfu")],
          [name |-> "LfuCache::get", code |-> LfuGetCode("lfu")]}

InitThreads ==
    /\ InitWrappersIdle
    /\ InitArcIdle
    /\ InitBudgetIdle
    /\ \E engine \in {"lru", "lfu"}, capacity \in 1..ThreadMaxCapacity :
          /\ thEngine = engine
          /\ lru = LruCache(IF engine = "lru" THEN capacity ELSE 0)
          /\ lruRef = <<IF engine = "lru" THEN capacity ELSE 0, <<>>>>
          /\ lfu = LfuCache(IF engine = "lfu" THEN capacity ELSE 0, ThreadThreshold)
    /\ lruRet = NoCall /\ lruRefRet = NoCall
    /\ lfuRet = NoCall /\ lfuLastPut = 0 /\ lfuSince = 0
    /\ thCall = [t \in Threads |-> "idle"]
    /\ thTodo = [t \in Threads |-> <<>>]
    /\ mutexOwner = [e \in {"lru", "lfu"} |-> NoThread]
    /\ thArgs = [t \in Threads |-> NoArgs]
    /\ thIt = [t \in Threads |-> FALSE]
    /\ thRet = [t \in Threads |-> NoReturn]
    /\ thLin = [t \in Threads |-> NoReturn]
    /\ thSnap = [t \in Threads |-> LfuCache(0, ThreadThreshold)]

notThreadDataVars ==
    <<lruRet, lruRefRet, lfuRet, lfuLastPut, lfuSince, arcVars, budgetVars, lrukVars,
      hashVars, thEngine>>

\* thread t calls an operation; a get passes an out variable holding Value{}
DataInvoke(t) ==
    /\ thCall[t] = "idle"
    /\ thEngine = "lfu" => LfuCallsLeft(lfu)
    /\ \E call \in DataCalls, key \in ThreadKeys, value \in Values :
          /\ thCall' = [thCall EXCEPT ![t] = call.name]
          /\ thTodo' = [thTodo EXCEPT ![t] = call.code]
          /\ thArgs' = [thArgs EXCEPT ![t] =
                           [key |-> key,
                            value |-> IF call.name \in {"LruCache::put", "LfuCache::put"}
                                      THEN value ELSE DefaultValue]]
    /\ UNCHANGED <<lru, lruRef, lfu, mutexOwner, thIt, thRet, thLin, thSnap,
                   notThreadDataVars>>

\* if (capacity_ <= 0) return; before the lock of put
DataCapacity(t) ==
    /\ thTodo[t] # <<>>
    /\ Head(thTodo[t]).kind = "capacity_"
    /\ LET capacity == IF thEngine = "lru" THEN lru.capacity_ ELSE lfu.capacity_
       IN  thTodo' = [thTodo EXCEPT ![t] = IF capacity <= 0 THEN <<>> ELSE Tail(@)]
    /\ UNCHANGED <<lru, lruRef, lfu, thCall, mutexOwner, thArgs, thIt, thRet, thLin,
                   thSnap, notThreadDataVars>>

\* what the reference LRU does and returns for the call of thread t
RefCall(t) ==
    LET key == thArgs[t].key
    IN  IF thCall[t] = "LruCache::put"
        THEN [r |-> RefPut(lruRef, key, thArgs[t].value),
              ret |-> [done |-> TRUE, hit |-> FALSE, value |-> thArgs[t].value]]
        ELSE IF thCall[t] = "LruCache::get"
        THEN [r |-> RefGet(lruRef, key).r,
              ret |-> [done |-> TRUE, hit |-> RefGet(lruRef, key).hit,
                       value |-> RefGet(lruRef, key).value]]
        ELSE [r |-> RefRemove(lruRef, key),
              ret |-> [done |-> TRUE, hit |-> FALSE, value |-> DefaultValue]]

\* the lock_guard constructor; the operation takes its place in the order
DataLock(t) ==
    /\ thTodo[t] # <<>>
    /\ Head(thTodo[t]).kind = "lock"
    /\ mutexOwner[Head(thTodo[t]).engine] = NoThread
    /\ mutexOwner' = [mutexOwner EXCEPT ![Head(thTodo[t]).engine] = t]
    /\ thTodo' = [thTodo EXCEPT ![t] = Tail(@)]
    /\ IF thEngine = "lru"
       THEN /\ lruRef' = RefCall(t).r
            /\ thLin' = [thLin EXCEPT ![t] = RefCall(t).ret]
            /\ UNCHANGED thSnap
       ELSE /\ thSnap' = [thSnap EXCEPT ![t] = lfu]
            /\ UNCHANGED <<lruRef, thLin>>
    /\ UNCHANGED <<lru, lfu, thCall, thArgs, thIt, thRet, notThreadDataVars>>

\* auto it = nodeMap_.find(key)
DataFind(t) ==
    /\ thTodo[t] # <<>>
    /\ Head(thTodo[t]).kind = "find"
    /\ thIt' = [thIt EXCEPT ![t] =
                   IF thEngine = "lru" THEN thArgs[t].key \in lru.nodeMap_
                   ELSE thArgs[t].key \in DOMAIN lfu.nodeMap_]
    /\ thTodo' = [thTodo EXCEPT ![t] = Tail(@)]
    /\ UNCHANGED <<lru, lruRef, lfu, thCall, mutexOwner, thArgs, thRet, thLin, thSnap,
                   notThreadDataVars>>

\* the rest of an LruCache operation, acting on the iterator `found`.  An
\* iterator whose entry another thread has erased since is dangling: what
\* acting on it does is undefined, here nothing or what a miss does
LruRest(c, name, found, key, value) ==
    LET fresh == found = (key \in c.nodeMap_)
        miss == IF name = "LruCache::put"
                THEN [c |-> LruAddNewNode(c, key, value), hit |-> FALSE, value |-> value]
                ELSE [c |-> c, hit |-> FALSE, value |-> value]
        hit == IF name = "LruCache::put"
               THEN [c |-> LruUpdateExistingNode(c, NodeOf(c.list, key), value),
                     hit |-> FALSE, value |-> value]
               ELSE IF name = "LruCache::get"
               THEN LruGetOp(c, key, value)
               ELSE [c |-> LruRemoveOp(c, key), hit |-> FALSE, value |-> value]
    IN  IF ~found THEN {miss}
        ELSE IF fresh THEN {hit}
        ELSE {miss, [c |-> c, hit |-> name = "LruCache::get", value |-> value]}

\* the rest of an LfuCache operation, likewise
LfuRest(c, name, found, key, value) ==
    LET fresh == found = (key \in DOMAIN c.nodeMap_)
        miss == IF name = "LfuCache::put"
                THEN {[c |-> d, hit |-> FALSE, value |-> value] :
                         d \in LfuPutInternal(c, key, value)}
                ELSE {[c |-> c, hit |-> FALSE, value |-> value]}
        hit == IF name = "LfuCache::put"
               THEN {[c |-> r.c, hit |-> FALSE, value |-> value] :
                        r \in LfuGetInternal(
                                 [c EXCEPT !.nodes[c.nodeMap_[key]].value = value],
                                 c.nodeMap_[key])}
               ELSE LfuGetOp(c, key, value)
    IN  IF ~found THEN miss
        ELSE IF fresh THEN hit
        ELSE miss \cup {[c |-> c, hit |-> name = "LfuCache::get", value |-> value]}

\* the statements after the find, up to the return
DataApply(t) ==
    /\ thTodo[t] # <<>>
    /\ Head(thTodo[t]).kind = "apply"
    /\ thTodo' = [thTodo EXCEPT ![t] = Tail(@)]
    /\ IF thEngine = "lru"
       THEN \E r \in LruRest(lru, thCall[t], thIt[t], thArgs[t].key, thArgs[t].value) :
               /\ lru' = r.c
               /\ thRet' = [thRet EXCEPT ![t] =
                               [done |-> TRUE, hit |-> r.hit, value |-> r.value]]
               /\ UNCHANGED lfu
       ELSE /\ thArgs[t].key \in DOMAIN lfu.nodeMap_
               \/ LfuFreeNames(lfu, thArgs[t].key) # {}
            /\ \E r \in LfuRest(lfu, thCall[t], thIt[t], thArgs[t].key, thArgs[t].value) :
               /\ lfu' = r.c
               /\ thRet' = [thRet EXCEPT ![t] =
                               [done |-> TRUE, hit |-> r.hit, value |-> r.value]]
               /\ UNCHANGED lru
    /\ UNCHANGED <<lruRef, thCall, mutexOwner, thArgs, thIt, thLin, thSnap,
                   notThreadDataVars>>

\* the lock_guard destructor
DataUnlock(t) ==
    /\ thTodo[t] # <<>>
    /\ Head(thTodo[t]).kind = "unlock"
    /\ mutexOwner' = [mutexOwner EXCEPT ![Head(thTodo[t]).engine] = NoThread]
    /\ thTodo' = [thTodo EXCEPT ![t] = Tail(@)]
    /\ UNCHANGED <<lru, lruRef, lfu, thCall, thArgs, thIt, thRet, thLin, thSnap,
                   notThreadDataVars>>

\* the operation returns to its caller, who takes what it returned
DataReturn(t) ==
    /\ thCall[t] # "idle"
    /\ thTodo[t] = <<>>
    /\ thCall' = [thCall EXCEPT ![t] = "idle"]
    /\ thArgs' = [thArgs EXCEPT ![t] = NoArgs]
    /\ thIt' = [thIt EXCEPT ![t] = FALSE]
    /\ thRet' = [thRet EXCEPT ![t] = NoReturn]
    /\ thLin' = [thLin EXCEPT ![t] = NoReturn]
    /\ thSnap' = [thSnap EXCEPT ![t] = LfuCache(0, ThreadThreshold)]
    /\ UNCHANGED <<lru, lruRef, lfu, thTodo, mutexOwner, notThreadDataVars>>

NextThreads ==
    \E t \in Threads :
        \/ DataInvoke(t)
        \/ DataCapacity(t)
        \/ DataLock(t)
        \/ DataFind(t)
        \/ DataApply(t)
        \/ DataUnlock(t)
        \/ DataReturn(t)

SpecThreads == InitThreads /\ [][NextThreads]_vars

\* what the call of a thread returns and leaves when nothing runs beside it
\* on the LfuCache c
LfuAlone(c, name, key, value) ==
    IF name = "LfuCache::put"
    THEN {[c |-> d, done |-> TRUE, hit |-> FALSE, value |-> value] :
             d \in LfuPutOp(c, key, value)}
    ELSE {[c |-> r.c, done |-> TRUE, hit |-> r.hit, value |-> r.value] :
             r \in LfuGetOp(c, key, value)}

C31_ArcCapacityConserved ==
    /\ arc.lruPart_.capacity_ + arc.lfuPart_.capacity_ = 2 * arc.capacity_
    /\ arc.lruPart_.capacity_ >= 0
    /\ arc.lfuPart_.capacity_ >= 0

\* at capacity 1 a B1 hit has moved T2's only unit to T1 (capacities 2 and
\* 0), and T1 holds two keys, the one put last among them, with a key in B1
C31_Witness ==
    /\ arc.capacity_ = 1
    /\ arc.lruPart_.capacity_ = 2 /\ arc.lfuPart_.capacity_ = 0
    /\ arcRet.op = "put"
    /\ arcRet.key \in arc.lruPart_.mainCache_
    /\ Cardinality(arc.lruPart_.mainCache_) = 2
    /\ arc.lruPart_.ghostCache_ # {}
    /\ arcRet.key \notin arc.lruPart_.ghostCache_

\* C32: ARC ghost structures stay consistent.  After every put / get, in
\* each part the ghost index and the ghost linked list hold exactly the same
\* keys, each once: the list is as long as the index is large.
C32_ArcGhostConsistent ==
    /\ arc.lruPart_.ghostCache_ =
          {arc.lruPart_.ghostList[i] : i \in 1..Len(arc.lruPart_.ghostList)}
    /\ Len(arc.lruPart_.ghostList) = Cardinality(arc.lruPart_.ghostCache_)
    /\ arc.lfuPart_.ghostCache_ =
          {arc.lfuPart_.ghostList[i] : i \in 1..Len(arc.lfuPart_.ghostList)}
    /\ Len(arc.lfuPart_.ghostList) = Cardinality(arc.lfuPart_.ghostCache_)

\* C33: LRU-K pending values are bounded by the history.  After any put /
\* get, every key with a value in historyValueMap_ has an entry in the
\* history LRU, so there are at most historyCapacity pending values.
C33_LrukPendingBounded ==
    /\ DOMAIN lruk.historyValueMap_ \subseteq lruk.historyList_.nodeMap_
    /\ Cardinality(DOMAIN lruk.historyValueMap_) <= lruk.historyList_.capacity_

\* C34: the LfuCache hit total never drifts negative.  After any put / get,
\* aging passes and evictions included, curTotalNum_ is at least the sum of
\* the frequencies of the live nodes, so it is >= 0, and curAverageNum_ is >= 0.
C34_LfuTotalCoversFreqs ==
    /\ lfu.curTotalNum_ >= LfuFreqSum(lfu, DOMAIN lfu.nodeMap_)
    /\ lfu.curTotalNum_ >= 0
    /\ lfu.curAverageNum_ >= 0

\* the state SpecLfuWorn starts from, four counted calls into a run of SpecLfu
LfuWornReached == \E key \in LfuKeys, value \in Values : lfu = LfuWorn(key, value, 4)

\* a hit of the one live key, by get or by put, takes the worn engine to the
\* worn engine whose total is one more, whatever the total
LfuWornStep ==
    \A key \in LfuKeys, value \in Values,
       total \in {3, 4, 1000, 65536, INT_MAX - LfuWornRunway, INT_MAX - 1} :
        /\ LfuGetOp(LfuWorn(key, value, total), key, DefaultValue)
              = {[c |-> LfuWorn(key, value, total + 1), hit |-> TRUE, value |-> value]}
        /\ \A other \in Values :
              LfuPutOp(LfuWorn(key, value, total), key, other)
                 = {LfuWorn(key, other, total + 1)}

====
